---- MODULE Spec2Model ----
(***************************************************************************)
(* QuickBooks Desktop Web Connector poll engine (QbdPollService) over the  *)
(* relational store: connection_identity, erp_connection_credentials,     *)
(* erp_connection_sync_state, connection_run, sync_event,                  *)
(* inventory_record and inventory_record_event.                            *)
(*                                                                         *)
(* Every adapter call is a task; a task takes one step per store call      *)
(* (each `.await` on the database is a suspension point), so tasks of      *)
(* different calls interleave at the store calls.  Tables are sequences;   *)
(* a row's integer primary key is its index, and created_at order is       *)
(* insertion order.  The store does not fail spontaneously in Spec; the    *)
(* unique index on erp_connection_sync_state.connection_id is modelled.    *)
(***************************************************************************)
EXTENDS Integers, Sequences, FiniteSets, TLC

VARIABLES
    connection_identity,       \* table, read-only for the poll engine
    erp_connection_credentials,\* table, read-only for the poll engine
    tenant,                    \* table
    erp_connection_sync_state, \* table
    connection_run,            \* table
    sync_event,                \* table
    inventory_record,          \* table
    inventory_record_event,    \* table
    tasks,                     \* task slot -> the call it is running
    calls,                     \* number of calls started so far
    polled,                    \* history: connections a call was validated for
    ensured,                   \* history: connections ensure_sync_state returned Ok for
    requested,                 \* history: connections with a succeeded request phase
    lastCount,                 \* history: connection -> remaining_count of the latest
                               \*          status "0" response whose cursor was written
    replay                     \* history: a document sent twice in a row, alone

store == <<erp_connection_sync_state, connection_run, sync_event,
           inventory_record, inventory_record_event>>
fixed == <<connection_identity, erp_connection_credentials, tenant>>
hist  == <<polled, ensured, requested, lastCount, replay>>
vars  == <<connection_identity, erp_connection_credentials, tenant,
           erp_connection_sync_state, connection_run, sync_event,
           inventory_record, inventory_record_event, tasks, calls,
           polled, ensured, requested, lastCount, replay>>

\* ---------------------------------------------------------------- bounds

MaxCalls == 3

\* The calls of a run that only re-sends inventory pages of one connection.
MaxReplayCalls == 4

\* Calls of one adapter against a store whose calls may fail.
MaxFaultCalls == 3

\* Calls of generate_qwc.
MaxProvisionCalls == 3

\* Listings: the rows in the table, the page size and the page asked for.
MaxTotal == 6
MaxPerPage == 4
MaxPage == 4
MaxListCalls == 1

\* Calls of one adapter whose request and response phases may fail.
MaxPhaseCalls == 4

\* Writes to the sync-state table.
MaxCursorWrites == 3

Tasks == {"t1", "t2"}

\* ---------------------------------------------------------------- Option

None == <<>>
Some(x) == <<x>>
IsSome(o) == o # <<>>
Unwrap(o) == o[1]

Max(S) == CHOOSE x \in S : \A y \in S : y <= x

\* ---------------------------------------------------------------- text -> number

Digits == <<"0", "1", "2", "3", "4", "5", "6", "7", "8", "9">>

IsDigit(ch) == \E d \in DOMAIN Digits : Digits[d] = ch
DigitVal(ch) == (CHOOSE d \in DOMAIN Digits : Digits[d] = ch) - 1

AllDigits(s) == \A k \in DOMAIN s : IsDigit(s[k])

RECURSIVE DigitsVal(_)
DigitsVal(s) ==
    IF s = <<>> THEN 0
    ELSE 10 * DigitsVal(SubSeq(s, 1, Len(s) - 1)) + DigitVal(s[Len(s)])

IsSign(ch) == ch \in {"+", "-"}

\* str::parse::<i64>() / str::parse::<i32>(): an optional sign, then at least
\* one digit and nothing else; Some(value) or None for Err.
ParseInt(s) ==
    LET body == IF s # <<>> /\ IsSign(s[1]) THEN Tail(s) ELSE s
        neg  == s # <<>> /\ s[1] = "-"
    IN IF body = <<>> \/ ~AllDigits(body) THEN None
       ELSE Some(IF neg THEN 0 - DigitsVal(body) ELSE DigitsVal(body))

DotAt(s) == {k \in DOMAIN s : s[k] = "."}

Pow10(n) == IF n = 0 THEN 1 ELSE IF n = 1 THEN 10 ELSE IF n = 2 THEN 100 ELSE 1000

\* str::parse::<f64>() then (p * 100.0).round() as i32, for plain decimal
\* text "[sign]digits[.digits]" with at most three fraction digits (round is
\* half away from zero); None for text that is no number.
ParsePriceCents(s) ==
    LET body == IF s # <<>> /\ IsSign(s[1]) THEN Tail(s) ELSE s
        neg  == s # <<>> /\ s[1] = "-"
        dots == DotAt(body)
        dot  == IF dots = {} THEN Len(body) + 1 ELSE CHOOSE k \in dots : TRUE
        ip   == SubSeq(body, 1, dot - 1)
        fp   == SubSeq(body, dot + 1, Len(body))
        ok   == /\ Cardinality(dots) <= 1
                /\ AllDigits(ip) /\ AllDigits(fp)
                /\ Len(ip) + Len(fp) >= 1
                /\ Len(fp) <= 3
        milli == DigitsVal(ip) * 1000 + DigitsVal(fp) * Pow10(3 - Len(fp))
        cents == (milli + 5) \div 10
    IN IF ~ok THEN None ELSE Some(IF neg THEN 0 - cents ELSE cents)

\* ---------------------------------------------------------------- QBXML codec

\* Items returned per QBXML page.
PAGE_SIZE == 50

\* A text (attribute value or text node) is a tuple of strings: text read as a
\* number is split into its characters, any other text is one element.
Trim(s) ==
    LET keep == {k \in DOMAIN s : s[k] # " "}
    IN IF keep = {} THEN <<>>
       ELSE SubSeq(s, CHOOSE k \in keep : \A j \in keep : k <= j, Max(keep))

EmptyMap == [x \in {} |-> <<>>]
Put(d, k, v) == [x \in DOMAIN d \cup {k} |-> IF x = k THEN v ELSE d[x]]
Get(d, k) == IF k \in DOMAIN d THEN Some(d[k]) ELSE None

\* and_then(|p| p.parse::<f64>().ok()).map(|p| (p * 100.0).round() as i32)
AndThenParsePrice(o) == IF IsSome(o) THEN ParsePriceCents(Unwrap(o)) ELSE None

\* and_then(|q| q.parse::<i32>().ok())
AndThenParseQty(o) == IF IsSome(o) THEN ParseInt(Unwrap(o)) ELSE None

\* A builder that starts a new iteration whatever the cursor holds.
BuildStartQueryAlways(cursor) ==
    [qbxml |-> "13.0", onError |-> "stopOnError", requestID |-> "1",
     iterator |-> "Start", iteratorID |-> None, maxReturned |-> 50]

\* The query document, by the attributes build_item_inventory_query_xml
\* formats into <ItemInventoryQueryRq>.
build_item_inventory_query_xml(cursor) ==
    LET iterator_id == IF IsSome(cursor) THEN Unwrap(cursor).iterator_id ELSE None
    IN IF ~IsSome(iterator_id)
       THEN [qbxml |-> "13.0", onError |-> "stopOnError", requestID |-> "1",
             iterator |-> "Start", iteratorID |-> None, maxReturned |-> PAGE_SIZE]
       ELSE [qbxml |-> "13.0", onError |-> "stopOnError", requestID |-> "1",
             iterator |-> "Continue", iteratorID |-> iterator_id,
             maxReturned |-> PAGE_SIZE]

\* The reader's events over a response document.
StartTag(n, a) == [kind |-> "Start", name |-> n, attrs |-> a, text |-> <<>>]
EmptyTag(n, a) == [kind |-> "Empty", name |-> n, attrs |-> a, text |-> <<>>]
EndTag(n)      == [kind |-> "End",   name |-> n, attrs |-> <<>>, text |-> <<>>]
Text(t)        == [kind |-> "Text",  name |-> "", attrs |-> <<>>, text |-> t]
ReadError      == [kind |-> "Err",   name |-> "", attrs |-> <<>>, text |-> <<>>]

ParseStart == [iterator_id |-> None, remaining_count |-> 0,
               status_code |-> <<"0">>, status_message |-> <<>>,
               items |-> <<>>, in_item |-> FALSE, current_tag |-> None,
               current_data |-> EmptyMap]

\* unwrap_or(0) on the parsed iteratorRemainingCount
RemainingCountOf(val) ==
    LET r == ParseInt(val) IN IF IsSome(r) THEN Unwrap(r) ELSE 0

RECURSIVE ReadAttributes(_, _)
ReadAttributes(attrs, st) ==
    IF attrs = <<>> THEN st
    ELSE LET key == Head(attrs)[1]
             val == Head(attrs)[2]
             nx  == CASE key = "iteratorID" -> [st EXCEPT !.iterator_id = Some(val)]
                      [] key = "iteratorRemainingCount" ->
                            [st EXCEPT !.remaining_count = RemainingCountOf(val)]
                      [] key = "statusCode" -> [st EXCEPT !.status_code = val]
                      [] key = "statusMessage" -> [st EXCEPT !.status_message = val]
                      [] OTHER -> st
         IN ReadAttributes(Tail(attrs), nx)

ItemOf(data) ==
    [list_id |-> data["ListID"],
     name |-> Get(data, "Name"),
     full_name |-> Get(data, "FullName"),
     sales_price_cents |-> AndThenParsePrice(Get(data, "SalesPrice")),
     qty_on_hand |-> AndThenParseQty(Get(data, "QuantityOnHand")),
     sales_desc |-> Get(data, "SalesDesc"),
     raw |-> data]

OnStart(e, st) ==
    CASE e.name = "ItemInventoryQueryRs" -> ReadAttributes(e.attrs, st)
      [] e.name = "ItemInventoryRet" ->
            [st EXCEPT !.in_item = TRUE, !.current_data = EmptyMap,
                       !.current_tag = None]
      [] OTHER -> IF st.in_item THEN [st EXCEPT !.current_tag = Some(e.name)] ELSE st

OnEnd(e, st) ==
    IF e.name = "ItemInventoryRet"
    THEN [st EXCEPT !.in_item = FALSE, !.current_tag = None,
                    !.items = IF "ListID" \in DOMAIN st.current_data
                              THEN Append(@, ItemOf(st.current_data)) ELSE @,
                    !.current_data = EmptyMap]
    ELSE IF st.in_item THEN [st EXCEPT !.current_tag = None] ELSE st

OnText(e, st) ==
    IF st.in_item /\ IsSome(st.current_tag) /\ Trim(e.text) # <<>>
    THEN [st EXCEPT !.current_data = Put(@, Unwrap(st.current_tag), Trim(e.text))]
    ELSE st

RECURSIVE ReadEvents(_, _)
ReadEvents(doc, st) ==
    IF doc = <<>> THEN Some(st)
    ELSE LET e == Head(doc)
         IN CASE e.kind = "Err"   -> None
              [] e.kind = "Start" -> ReadEvents(Tail(doc), OnStart(e, st))
              [] e.kind = "End"   -> ReadEvents(Tail(doc), OnEnd(e, st))
              [] e.kind = "Text"  -> ReadEvents(Tail(doc), OnText(e, st))
              [] OTHER            -> ReadEvents(Tail(doc), st)

\* Some(ParsedInventoryResponse), or None for Err(message).
parse_inventory_response(doc) ==
    LET r == ReadEvents(doc, ParseStart)
    IN IF ~IsSome(r) THEN None
       ELSE Some([iterator_id |-> Unwrap(r).iterator_id,
                  remaining_count |-> Unwrap(r).remaining_count,
                  status_code |-> Unwrap(r).status_code,
                  status_message |-> Unwrap(r).status_message,
                  items |-> Unwrap(r).items])

\* ---------------------------------------------------------------- inputs

Usernames == {"qb1", "QB1", "qb2", "qbo", "sap"}
Passwords == {"pw1", "PW1", ""}
QbdErrors == {"Connection to QBD lost"}

Rs(attrs) == StartTag("ItemInventoryQueryRs", attrs)
RsEnd == EndTag("ItemInventoryQueryRs")
Elem(tag, text) == <<StartTag(tag, <<>>), Text(text), EndTag(tag)>>
Ret(children) ==
    <<StartTag("ItemInventoryRet", <<>>)>> \o children \o <<EndTag("ItemInventoryRet")>>

ItemWidget ==
    Ret(Elem("ListID", <<"80000001-1234567890">>) \o Elem("Name", <<"Widget">>)
        \o Elem("FullName", <<"Widget">>)
        \o Elem("SalesPrice", <<"1", "2", ".", "5", "0">>)
        \o Elem("QuantityOnHand", <<"7">>))
ItemWidgetNoPrice ==
    Ret(Elem("ListID", <<"80000001-1234567890">>) \o Elem("Name", <<"Widget v2">>)
        \o Elem("QuantityOnHand", <<"x">>))
ItemGadget ==
    Ret(Elem("ListID", <<"80000002-1234567890">>) \o Elem("Name", <<"Gadget">>)
        \o Elem("SalesPrice", <<"0", ".", "2", "9">>))
ItemNoListID == Ret(Elem("Name", <<"Orphan">>))

\* The response documents the adapter may send, as the reader's event sequences.
Bodies == <<
    \* 1: a page with more to come
    <<Rs(<<<<"statusCode", <<"0">>>>, <<"iteratorRemainingCount", <<"1">>>>,
           <<"iteratorID", <<"{abc}">>>>>>)>> \o ItemWidget \o <<RsEnd>>,
    \* 2: a last page
    <<Rs(<<<<"statusCode", <<"0">>>>, <<"iteratorRemainingCount", <<"0">>>>>>)>>
        \o ItemWidgetNoPrice \o ItemGadget \o ItemNoListID \o <<RsEnd>>,
    \* 3: a self-closing root element with no items
    <<EmptyTag("ItemInventoryQueryRs",
               <<<<"statusCode", <<"0">>>>, <<"iteratorRemainingCount", <<"0">>>>>>)>>,
    \* 4: a negative remaining count
    <<Rs(<<<<"statusCode", <<"0">>>>, <<"iteratorRemainingCount", <<"-", "1">>>>>>),
      RsEnd>>,
    \* 5: a provider soft error
    <<Rs(<<<<"statusCode", <<"1">>>>, <<"statusMessage", <<"filter out of range">>>>>>),
      RsEnd>>,
    \* 6: malformed XML
    <<Rs(<<<<"statusCode", <<"0">>>>>>), ReadError>>,
    \* 7: a provider soft error as QuickBooks sends it, the root self-closing
    <<EmptyTag("ItemInventoryQueryRs",
               <<<<"statusCode", <<"1">>>>,
                 <<"statusMessage", <<"filter out of range">>>>>>)>>
>>

\* ---------------------------------------------------------------- tables

Rows(table) == DOMAIN table
Insert(table, row) == Append(table, row)
NewId(table) == Len(table) + 1

InitConnections == <<
    [tenant_id |-> 1, erp_provider |-> "Quickbooks", erp_type |-> "Desktop"],
    [tenant_id |-> 2, erp_provider |-> "Quickbooks", erp_type |-> "Desktop"],
    [tenant_id |-> 1, erp_provider |-> "Quickbooks", erp_type |-> "Api"],
    [tenant_id |-> 2, erp_provider |-> "Sap", erp_type |-> "Desktop"]
>>

\* Rows satisfy credentials_not_all_null: each has a password or an access token.
InitCredentials == <<
    [connection_id |-> 1, provider_user_id |-> Some("qb1"),
     provider_password |-> Some("pw1"), access_token |-> None],
    [connection_id |-> 2, provider_user_id |-> Some("qb2"),
     provider_password |-> None, access_token |-> Some("tok")],
    [connection_id |-> 3, provider_user_id |-> Some("qbo"),
     provider_password |-> Some("pw1"), access_token |-> Some("tok")],
    [connection_id |-> 4, provider_user_id |-> Some("sap"),
     provider_password |-> Some("pw1"), access_token |-> None]
>>

\* TenantService::create: a generated id "TN_<hex>", no display name, Active.
NewTenant(hex) == [tenant_id |-> <<"TN_", hex>>, display_name |-> None,
                   status |-> "Active"]

InitTenants == <<NewTenant("a"), NewTenant("b")>>

NoInput == [qbd_response_xml |-> None, qbd_error |-> None]

IdleTask ==
    [op |-> "none", pc |-> "idle", username |-> "", password |-> "",
     conn |-> 0, sync_state |-> None, event |-> None, run |-> None,
     xml |-> None, input |-> NoInput, item |-> 0, record |-> 0,
     errors |-> <<>>, failed |-> {}, created |-> FALSE, result |-> "none",
     has |-> FALSE]

NoReplay == [stage |-> "none", conn |-> 0, body |-> 0, inv |-> <<>>]
Inventory == <<inventory_record, inventory_record_event>>

Init ==
    /\ connection_identity = InitConnections
    /\ erp_connection_credentials = InitCredentials
    /\ tenant = InitTenants
    /\ erp_connection_sync_state = <<>>
    /\ connection_run = <<>>
    /\ sync_event = <<>>
    /\ inventory_record = <<>>
    /\ inventory_record_event = <<>>
    /\ tasks = [t \in Tasks |-> IdleTask]
    /\ calls = 0
    /\ polled = {}
    /\ ensured = {}
    /\ requested = {}
    /\ lastCount = [c \in DOMAIN InitConnections |-> None]
    /\ replay = NoReplay

\* ---------------------------------------------------------------- credential check

UnwrapOr(o, d) == IF IsSome(o) THEN Unwrap(o) ELSE d

\* creds.provider_password.as_deref().unwrap_or("") != password
PasswordRejected(stored, password) == UnwrapOr(stored, "") # password

\* ProviderUserId.eq(username)
UserIdMatches(stored, username) == stored = Some(username)

\* conn.erp_provider != Quickbooks || conn.erp_type != Desktop
NotQbdDesktop(conn) == conn.erp_provider # "Quickbooks" \/ conn.erp_type # "Desktop"

\* The check on one credentials row: the connection id, or 0 for Unauthorized.
CheckCredentials(creds, password) ==
    IF PasswordRejected(creds.provider_password, password) THEN 0
    ELSE IF creds.connection_id \notin Rows(connection_identity) THEN 0
    ELSE IF NotQbdDesktop(connection_identity[creds.connection_id]) THEN 0
    ELSE creds.connection_id

\* The outcomes of validate_credentials: the row `.one()` returns is any row
\* with that user id.
validate_credentials(username, password) ==
    LET found == {i \in Rows(erp_connection_credentials) :
                    UserIdMatches(erp_connection_credentials[i].provider_user_id,
                                  username)}
    IN IF found = {} THEN {0}
       ELSE {CheckCredentials(erp_connection_credentials[i], password) : i \in found}

\* ---------------------------------------------------------------- store services

\* A schema without the unique index: every insert goes through.
SyncStateInsertUnchecked(connection_id) == TRUE

\* The unique index on erp_connection_sync_state.connection_id: an insert for a
\* connection that has a row fails.
SyncStateInsertAllowed(connection_id) ==
    \A i \in Rows(erp_connection_sync_state) :
        erp_connection_sync_state[i].connection_id # connection_id

\* ErpConnectionSyncStateService::get_by_connection_id
SyncStatesOf(connection_id) ==
    {i \in Rows(erp_connection_sync_state) :
        erp_connection_sync_state[i].connection_id = connection_id}

\* ErpConnectionSyncStateService::create, as ensure_sync_state calls it
NewSyncState(connection_id) == [connection_id |-> connection_id, sync_cursor |-> None]

\* The erp_connection_sync_state::Model a task holds.
SyncStateModel(id, row) == [id |-> id, sync_cursor |-> row.sync_cursor]

\* ConnectionRunService::create
ConnectionRunCreate(data) ==
    [connection_id |-> data.connection_id,
     status |-> UnwrapOr(data.status, "Success"),
     run_type |-> UnwrapOr(data.run_type, "Poll"),
     error_message |-> data.error_message]

\* ConnectionRunService::update_by_uuid
ConnectionRunUpdate(row, patch) ==
    [row EXCEPT !.status = UnwrapOr(patch.status, @),
                !.error_message = IF IsSome(patch.error_message)
                                  THEN patch.error_message ELSE @]

\* SyncEventService::create
SyncEventCreate(data) ==
    [event_direction |-> data.event_direction,
     sync_event_method |-> data.sync_event_method,
     sync_event_category |-> data.sync_event_category,
     attempts |-> UnwrapOr(data.attempts, 0),
     status |-> UnwrapOr(data.status, "Pending"),
     last_error |-> data.last_error,
     last_errored_date |-> data.last_errored_date,
     connection_sync_state_id |-> data.connection_sync_state_id,
     connection_run_id |-> None]

\* SyncEventService::update_by_id: only the fields present in the patch change.
SyncEventUpdate(row, patch) ==
    [row EXCEPT !.attempts = UnwrapOr(patch.attempts, @),
                !.status = UnwrapOr(patch.status, @),
                !.last_error = IF IsSome(patch.last_error) THEN patch.last_error ELSE @,
                !.last_errored_date = IF IsSome(patch.last_errored_date)
                                      THEN patch.last_errored_date ELSE @]

\* The sync_event.connection_run_id column (added by migration 000014): create
\* stores the given run, update stores it when the patch carries one.
StoreConnectionRunId(row, connection_run_id) ==
    [row EXCEPT !.connection_run_id =
                    IF IsSome(connection_run_id) THEN connection_run_id ELSE @]

NoPatch == [attempts |-> None, status |-> None, last_error |-> None,
            last_errored_date |-> None, connection_run_id |-> None]

\* The sync_event::Model a task holds.
SyncEventModel(id) ==
    [id |-> id, attempts |-> sync_event[id].attempts,
     sync_event_method |-> sync_event[id].sync_event_method,
     connection_run_id |-> sync_event[id].connection_run_id]

\* The filters both phases put on sync_event besides the status.
IsRecurringEventOf(row, sync_state_id) ==
    /\ row.connection_sync_state_id = Some(sync_state_id)
    /\ row.sync_event_method = "List"
    /\ row.sync_event_category = "Inventory"

\* A query that also takes an event that is InProgress.
ReadyEventsOrInProgress(sync_state_id) ==
    {i \in Rows(sync_event) :
        /\ sync_event[i].status \in {"Pending", "Error", "InProgress"}
        /\ IsRecurringEventOf(sync_event[i], sync_state_id)}

\* handle_request's query: status Pending or Error.
ReadyEvents(sync_state_id) ==
    {i \in Rows(sync_event) :
        /\ sync_event[i].status \in {"Pending", "Error"}
        /\ IsRecurringEventOf(sync_event[i], sync_state_id)}

\* handle_response's query: status InProgress.
InProgressEvents(sync_state_id) ==
    {i \in Rows(sync_event) :
        /\ sync_event[i].status = "InProgress"
        /\ IsRecurringEventOf(sync_event[i], sync_state_id)}

\* ---------------------------------------------------------------- tasks

SetTask(t, task) == tasks' = [tasks EXCEPT ![t] = task]

Finish(task, result, has) ==
    [task EXCEPT !.pc = "done", !.result = result, !.has = has]

OthersIdle(t) == \A o \in Tasks \ {t} : tasks[o].pc = "idle"

\* ensure_sync_state, the lookup by connection id: the row found, or none.
EnsureSyncStateLookup(conn) ==
    LET found == SyncStatesOf(conn)
    IN IF found = {} THEN {None}
       ELSE {Some(SyncStateModel(i, erp_connection_sync_state[i])) : i \in found}

\* What the credential check leaves of a call: Unauthorized ends it; a valid
\* call goes on to ensure_sync_state with the row its lookup returned.
AfterValidate(task, conn, sync_state) ==
    IF conn = 0 THEN Finish([task EXCEPT !.input = NoInput], "Unauthorized", FALSE)
    ELSE [task EXCEPT !.pc = IF IsSome(sync_state) THEN "find" ELSE "ensure_create",
                      !.conn = conn, !.sync_state = sync_state]

\* The history of a replay: a response call that starts with no other call
\* running is "first"; the same document for the same connection, sent again
\* right after it returned Ok, is "second".
ReplayAtStart(t, op, conn, input) ==
    IF ~(OthersIdle(t) /\ op = "response" /\ conn # 0
         /\ IsSome(input.qbd_response_xml) /\ ~IsSome(input.qbd_error))
    THEN NoReplay
    ELSE IF /\ replay.stage = "armed" /\ replay.conn = conn
            /\ replay.body = Unwrap(input.qbd_response_xml)
         THEN [replay EXCEPT !.stage = "second"]
         ELSE [stage |-> "first", conn |-> conn,
               body |-> Unwrap(input.qbd_response_xml), inv |-> <<>>]

\* A call that runs ensure_sync_state for the connection of the credentials
\* row before it compares the password, and is then rejected.
StartEnsuringFirst(t, op, username, password, input) ==
    /\ tasks[t].pc = "idle"
    /\ calls' = calls + 1
    /\ \E i \in Rows(erp_connection_credentials) :
        /\ UserIdMatches(erp_connection_credentials[i].provider_user_id, username)
        /\ erp_connection_sync_state' =
              Insert(erp_connection_sync_state,
                     NewSyncState(erp_connection_credentials[i].connection_id))
    /\ SetTask(t, Finish([IdleTask EXCEPT !.op = op, !.username = username,
                                          !.password = password],
                         "Unauthorized", FALSE))
    /\ UNCHANGED <<connection_run, sync_event, inventory_record,
                   inventory_record_event, fixed, hist>>

\* A call starts with validate_credentials and, when that passes, the lookup
\* of ensure_sync_state. The credential check reads only tables no poll call
\* writes, so it and the lookup are one step.
Start(t, op, username, password, input) ==
    /\ tasks[t].pc = "idle"
    /\ calls' = calls + 1
    /\ \E conn \in validate_credentials(username, password) :
        \E sync_state \in EnsureSyncStateLookup(conn) :
            LET task == [IdleTask EXCEPT !.op = op, !.username = username,
                                         !.password = password, !.input = input]
            IN /\ SetTask(t, AfterValidate(task, conn, sync_state))
               /\ polled' = IF conn = 0 THEN polled ELSE polled \cup {conn}
               /\ ensured' = IF IsSome(sync_state) THEN ensured \cup {conn}
                             ELSE ensured
               /\ replay' = ReplayAtStart(t, op, conn, input)
    /\ UNCHANGED <<store, fixed, requested, lastCount>>

StartRequest(t) ==
    /\ calls < MaxCalls
    /\ \E username \in Usernames, password \in Passwords :
          Start(t, "request", username, password, NoInput)

ResponseInputs ==
    [qbd_response_xml : {None} \cup {Some(k) : k \in DOMAIN Bodies},
     qbd_error : {None}]
    \cup [qbd_response_xml : {None, Some(1)},
          qbd_error : {Some(e) : e \in QbdErrors}]

StartResponse(t) ==
    /\ calls < MaxCalls
    /\ \E username \in Usernames, password \in Passwords, input \in ResponseInputs :
          Start(t, "response", username, password, input)

\* ensure_sync_state: the insert when the lookup found none.
EnsureSyncStateCreate(t) ==
    /\ tasks[t].pc = "ensure_create"
    /\ IF SyncStateInsertAllowed(tasks[t].conn)
       THEN LET row == NewSyncState(tasks[t].conn)
            IN /\ erp_connection_sync_state' = Insert(erp_connection_sync_state, row)
               /\ SetTask(t, [tasks[t] EXCEPT
                            !.pc = "find", !.created = (tasks[t].op = "request"),
                            !.sync_state =
                                Some(SyncStateModel(NewId(erp_connection_sync_state),
                                                    row))])
               /\ ensured' = ensured \cup {tasks[t].conn}
       ELSE /\ SetTask(t, Finish(tasks[t], "Db", FALSE))
            /\ UNCHANGED <<erp_connection_sync_state, ensured>>
    /\ UNCHANGED <<connection_run, sync_event, inventory_record,
                   inventory_record_event, fixed, calls, polled, requested,
                   lastCount, replay>>

\* ---------------------------------------------------------------- handle_request

\* handle_request: find the event that is ready, build the query document.
ReqFindEvent(t) ==
    /\ tasks[t].pc = "find" /\ tasks[t].op = "request"
    /\ LET sync_state == Unwrap(tasks[t].sync_state)
           ready == ReadyEvents(sync_state.id)
           xml == build_item_inventory_query_xml(sync_state.sync_cursor)
       IN \E maybe_event \in IF ready = {} THEN {None}
                             ELSE {Some(SyncEventModel(i)) : i \in ready} :
            SetTask(t, [tasks[t] EXCEPT !.pc = "event", !.event = maybe_event,
                                    !.xml = Some(xml)])
    /\ UNCHANGED <<store, fixed, calls, hist>>

\* A run opened for a fixed connection instead of the caller's.
NewPollRunOfFirst(conn) ==
    ConnectionRunCreate([connection_id |-> 1, status |-> Some("Success"),
                         run_type |-> Some("Poll"), error_message |-> None])

\* The run handle_request opens for its cycle.
NewPollRun(conn) ==
    ConnectionRunCreate([connection_id |-> conn, status |-> Some("Success"),
                         run_type |-> Some("Poll"), error_message |-> None])

\* An event created with the defaults of SyncEventService::create: Pending,
\* no attempt counted.
FirstPollEventNotStarted(sync_state_id, run_id) ==
    StoreConnectionRunId(
        SyncEventCreate([event_direction |-> "PullFromExternal",
                         sync_event_method |-> "List",
                         sync_event_category |-> "Inventory",
                         attempts |-> None,
                         status |-> None,
                         last_error |-> None,
                         last_errored_date |-> None,
                         connection_sync_state_id |-> Some(sync_state_id)]),
        Some(run_id))

\* handle_request, None branch: the event of a first poll.
FirstPollEvent(sync_state_id, run_id) ==
    StoreConnectionRunId(
        SyncEventCreate([event_direction |-> "PullFromExternal",
                         sync_event_method |-> "List",
                         sync_event_category |-> "Inventory",
                         attempts |-> Some(1),
                         status |-> Some("InProgress"),
                         last_error |-> None,
                         last_errored_date |-> None,
                         connection_sync_state_id |-> Some(sync_state_id)]),
        Some(run_id))

\* A re-drive that leaves the event with the run it had.
RedrivePatchKeepingRun(event, run_id) ==
    [NoPatch EXCEPT !.status = Some("InProgress"),
                    !.attempts = Some(event.attempts + 1)]

\* A re-drive that does not count the attempt.
RedrivePatchSameAttempts(event, run_id) ==
    [NoPatch EXCEPT !.status = Some("InProgress"),
                    !.connection_run_id = Some(run_id)]

\* handle_request, Some branch: the patch of the event found.
RedrivePatch(event, run_id) ==
    [NoPatch EXCEPT !.status = Some("InProgress"),
                    !.attempts = Some(event.attempts + 1),
                    !.connection_run_id = Some(run_id)]

\* SyncEventService::update_by_uuid on the table.
UpdateEvent(table, id, patch) ==
    [table EXCEPT ![id] = StoreConnectionRunId(SyncEventUpdate(@, patch),
                                               patch.connection_run_id)]

\* handle_request, None branch: a new run, then the event of the first poll,
\* linked to it. The new run is visible to no other call before the event is.
ReqCreateEvent(t) ==
    /\ tasks[t].pc = "event" /\ ~IsSome(tasks[t].event)
    /\ connection_run' = Insert(connection_run, NewPollRun(tasks[t].conn))
    /\ sync_event' = Insert(sync_event,
                            FirstPollEvent(Unwrap(tasks[t].sync_state).id,
                                           NewId(connection_run)))
    /\ SetTask(t, Finish([tasks[t] EXCEPT !.run = Some(NewId(connection_run))],
                         "Ok", TRUE))
    /\ requested' = requested \cup {tasks[t].conn}
    /\ UNCHANGED <<erp_connection_sync_state, inventory_record,
                   inventory_record_event, fixed, calls, polled, ensured,
                   lastCount, replay>>

\* handle_request, Some branch: a new run, then the event found goes back to
\* InProgress, linked to it.
ReqPatchEvent(t) ==
    /\ tasks[t].pc = "event" /\ IsSome(tasks[t].event)
    /\ connection_run' = Insert(connection_run, NewPollRun(tasks[t].conn))
    /\ sync_event' = UpdateEvent(sync_event, Unwrap(tasks[t].event).id,
                                 RedrivePatch(Unwrap(tasks[t].event),
                                              NewId(connection_run)))
    /\ SetTask(t, Finish([tasks[t] EXCEPT !.run = Some(NewId(connection_run))],
                         "Ok", TRUE))
    /\ requested' = requested \cup {tasks[t].conn}
    /\ UNCHANGED <<erp_connection_sync_state, inventory_record,
                   inventory_record_event, fixed, calls, polled, ensured,
                   lastCount, replay>>

\* ---------------------------------------------------------------- handle_response

\* parse_inventory_response on each document the adapter may send.
ParsedBodies == [k \in DOMAIN Bodies |-> parse_inventory_response(Bodies[k])]

\* parse_inventory_response on the call's qbd_response_xml.
ParseOf(task) == ParsedBodies[Unwrap(task.input.qbd_response_xml)]
Parsed(task) == Unwrap(ParseOf(task))

ItemsPc(task) == IF Parsed(task).items = <<>> THEN "cursor" ELSE "item"

\* handle_response, after the event and its run are loaded: the branch taken.
BranchOf(task) ==
    IF IsSome(task.input.qbd_error) THEN "hard_error"
    ELSE IF ~IsSome(task.input.qbd_response_xml) THEN "no_xml"
    ELSE IF ~IsSome(ParseOf(task)) THEN "parse_error"
    ELSE IF Parsed(task).status_code # <<"0">> THEN "soft_error"
    ELSE ItemsPc(task)

\* A load that falls back to the latest run when no event was found.
LoadRunOrLatest(event) ==
    IF IsSome(event) /\ IsSome(Unwrap(event).connection_run_id)
       /\ Unwrap(Unwrap(event).connection_run_id) \in Rows(connection_run)
    THEN Unwrap(event).connection_run_id
    ELSE IF Rows(connection_run) # {} THEN Some(Max(Rows(connection_run)))
    ELSE None

\* The run of the event found, loaded by its connection_run_id.
LoadRun(event) ==
    IF IsSome(event) /\ IsSome(Unwrap(event).connection_run_id)
       /\ Unwrap(Unwrap(event).connection_run_id) \in Rows(connection_run)
    THEN Unwrap(event).connection_run_id
    ELSE None

\* handle_response: find the InProgress event, load its run, take the branch.
RespFindEvent(t) ==
    /\ tasks[t].pc = "find" /\ tasks[t].op = "response"
    /\ LET found == InProgressEvents(Unwrap(tasks[t].sync_state).id)
       IN \E event \in IF found = {} THEN {None}
                       ELSE {Some(SyncEventModel(i)) : i \in found} :
            LET task == [tasks[t] EXCEPT !.event = event, !.run = LoadRun(event),
                                         !.item = 1]
                pc == BranchOf(task)
            IN SetTask(t, IF pc = "no_xml" THEN Finish(task, "Ok", FALSE)
                          ELSE [task EXCEPT !.pc = pc])
    /\ UNCHANGED <<store, fixed, calls, hist>>

\* format!: the pieces of a message, joined.
RECURSIVE Format(_)
Format(pieces) == IF pieces = <<>> THEN <<>> ELSE Head(pieces) \o Format(Tail(pieces))

\* An event patch that sets the status and the message and leaves the date.
ErrorEventPatchWithoutDate(message) ==
    [NoPatch EXCEPT !.status = Some("Error"),
                    !.last_error = Some([message |-> message])]

\* The event patch of an error: status Error, last_error {"message": ...}.
ErrorEventPatch(message) ==
    [NoPatch EXCEPT !.status = Some("Error"),
                    !.last_error = Some([message |-> message]),
                    !.last_errored_date = Some("now")]

\* A run patch that sets the status and leaves the message as it was.
ErrorRunPatchNoMessage(message) == [status |-> Some("Error"), error_message |-> None]

\* The run patch of an error.
ErrorRunPatch(message) == [status |-> Some("Error"), error_message |-> Some(message)]

PatchEventIfSome(table, event, patch) ==
    IF IsSome(event) THEN UpdateEvent(table, Unwrap(event).id, patch) ELSE table

PatchRunIfSome(table, run, patch) ==
    IF IsSome(run) THEN [table EXCEPT ![Unwrap(run)] = ConnectionRunUpdate(@, patch)]
    ELSE table

\* handle_response, qbd_error branch.
RespHardError(t) ==
    /\ tasks[t].pc = "hard_error"
    /\ LET err_msg == <<Unwrap(tasks[t].input.qbd_error)>>
       IN /\ sync_event' = PatchEventIfSome(sync_event, tasks[t].event,
                                            ErrorEventPatch(err_msg))
          /\ connection_run' = PatchRunIfSome(connection_run, tasks[t].run,
                                              ErrorRunPatch(err_msg))
    /\ SetTask(t, Finish(tasks[t], "Ok", FALSE))
    /\ UNCHANGED <<erp_connection_sync_state, inventory_record,
                   inventory_record_event, fixed, calls, hist>>

\* The message of a parse failure or of a statusCode other than "0".
ErrorMessageOf(task) ==
    IF task.pc = "parse_error" THEN Format(<<<<"XML parse error: ">>, <<"read error">>>>)
    ELSE Format(<<<<"QBD status ">>, Parsed(task).status_code, <<": ">>,
                  Parsed(task).status_message>>)

\* handle_response: mark_event_and_run_error, then Err(XmlParse).
RespMarkEventAndRunError(t) ==
    /\ tasks[t].pc \in {"parse_error", "soft_error"}
    /\ LET msg == ErrorMessageOf(tasks[t])
       IN /\ sync_event' = PatchEventIfSome(sync_event, tasks[t].event,
                                            ErrorEventPatch(msg))
          /\ connection_run' = PatchRunIfSome(connection_run, tasks[t].run,
                                              ErrorRunPatch(msg))
    /\ SetTask(t, Finish(tasks[t], "XmlParse", FALSE))
    /\ UNCHANGED <<erp_connection_sync_state, inventory_record,
                   inventory_record_event, fixed, calls, hist>>

\* ---------------------------------------------------------------- upsert_inventory_item

CurrentItem(task) == Parsed(task).items[task.item]

\* A lookup by ListID that does not look at the connection.
RecordsOfAnyConnection(conn, list_id) ==
    {i \in Rows(inventory_record) :
        /\ inventory_record[i].system_id_key = "Qbd"
        /\ inventory_record[i].system_id = list_id}

\* The lookup of the canonical record by ListID.
RecordsOf(conn, list_id) ==
    {i \in Rows(inventory_record) :
        /\ inventory_record[i].system_id_key = "Qbd"
        /\ inventory_record[i].system_id = list_id
        /\ inventory_record[i].originating_connection_id = conn}

\* InventoryRecordService::create
InventoryRecordCreate(data) ==
    [tenant_id |-> data.tenant_id,
     originating_connection_id |-> data.originating_connection_id,
     original_record_body |-> data.original_record_body,
     system_id_key |-> data.system_id_key,
     system_id |-> data.system_id]

\* InventoryRecordService::update_by_id with only original_record_body given
InventoryRecordUpdate(row, body) ==
    [row EXCEPT !.original_record_body = IF IsSome(body) THEN body ELSE @]

\* The events of a record and connection; the most recent is the latest created.
RecordEventsOf(record_id, conn) ==
    {i \in Rows(inventory_record_event) :
        /\ inventory_record_event[i].inventory_record_id = record_id
        /\ inventory_record_event[i].connection_id = conn}

\* InventoryRecordEventService::create
InventoryRecordEventCreate(data) ==
    [inventory_record_id |-> data.inventory_record_id,
     connection_id |-> data.connection_id,
     original_record_body |-> data.original_record_body,
     price |-> data.price, currency |-> data.currency, name |-> data.name,
     description |-> data.description, attributes |-> data.attributes,
     qty |-> data.qty, external_code |-> data.external_code]

KeepIfNone(new, old) == IF IsSome(new) THEN new ELSE old

\* InventoryRecordEventService::update_by_id
InventoryRecordEventUpdate(row, patch) ==
    [row EXCEPT !.original_record_body = KeepIfNone(patch.original_record_body, @),
                !.price = KeepIfNone(patch.price, @),
                !.currency = KeepIfNone(patch.currency, @),
                !.name = KeepIfNone(patch.name, @),
                !.description = KeepIfNone(patch.description, @),
                !.attributes = KeepIfNone(patch.attributes, @),
                !.qty = KeepIfNone(patch.qty, @),
                !.external_code = KeepIfNone(patch.external_code, @)]

\* The fields upsert_inventory_item takes from an item, for a patch and a create.
EventFieldsOf(item) ==
    [original_record_body |-> Some(item.raw), price |-> item.sales_price_cents,
     currency |-> None, name |-> item.name, description |-> item.sales_desc,
     attributes |-> None, qty |-> item.qty_on_hand, external_code |-> item.full_name]

NewRecordOf(conn, item) ==
    InventoryRecordCreate([tenant_id |-> connection_identity[conn].tenant_id,
                           originating_connection_id |-> conn,
                           original_record_body |-> Some(item.raw),
                           system_id_key |-> "Qbd",
                           system_id |-> item.list_id])

NewRecordEventOf(record_id, conn, item) ==
    LET f == EventFieldsOf(item)
    IN InventoryRecordEventCreate(
           [inventory_record_id |-> record_id, connection_id |-> conn,
            original_record_body |-> f.original_record_body, price |-> f.price,
            currency |-> f.currency, name |-> f.name, description |-> f.description,
            attributes |-> f.attributes, qty |-> f.qty,
            external_code |-> f.external_code])

\* A loop that goes on to the next item only while no item has failed.
NextItemUnlessFailed(task) ==
    IF task.item < Len(Parsed(task).items) /\ task.failed = {}
    THEN [task EXCEPT !.pc = "item", !.item = @ + 1, !.record = 0]
    ELSE [task EXCEPT !.pc = "cursor", !.record = 0]

\* The loop over parsed.items: the next item, or the cursor update.
NextItem(task) ==
    IF task.item < Len(Parsed(task).items)
    THEN [task EXCEPT !.pc = "item", !.item = @ + 1, !.record = 0]
    ELSE [task EXCEPT !.pc = "cursor", !.record = 0]

\* upsert_inventory_item: look the record up; refresh its body when found.
UpsertFindRecord(t) ==
    /\ tasks[t].pc = "item"
    /\ LET item == CurrentItem(tasks[t])
           found == RecordsOf(tasks[t].conn, item.list_id)
       IN IF found = {}
          THEN /\ SetTask(t, [tasks[t] EXCEPT !.pc = "item_create"])
               /\ UNCHANGED inventory_record
          ELSE \E r \in found :
                /\ inventory_record' =
                      [inventory_record EXCEPT
                          ![r] = InventoryRecordUpdate(@, Some(item.raw))]
                /\ SetTask(t, [tasks[t] EXCEPT !.pc = "item_event", !.record = r])
    /\ UNCHANGED <<erp_connection_sync_state, connection_run, sync_event,
                   inventory_record_event, fixed, calls, hist>>

\* upsert_inventory_item: create the record the lookup did not find.
UpsertCreateRecord(t) ==
    /\ tasks[t].pc = "item_create"
    /\ inventory_record' =
          Insert(inventory_record, NewRecordOf(tasks[t].conn, CurrentItem(tasks[t])))
    /\ SetTask(t, [tasks[t] EXCEPT !.pc = "item_event",
                                   !.record = NewId(inventory_record)])
    /\ UNCHANGED <<erp_connection_sync_state, connection_run, sync_event,
                   inventory_record_event, fixed, calls, hist>>

\* upsert_inventory_item: the most recent event of the record; patch it when found.
UpsertFindEvent(t) ==
    /\ tasks[t].pc = "item_event"
    /\ LET found == RecordEventsOf(tasks[t].record, tasks[t].conn)
       IN IF found = {}
          THEN /\ SetTask(t, [tasks[t] EXCEPT !.pc = "item_event_create"])
               /\ UNCHANGED inventory_record_event
          ELSE /\ inventory_record_event' =
                      [inventory_record_event EXCEPT
                          ![Max(found)] =
                              InventoryRecordEventUpdate(
                                  @, EventFieldsOf(CurrentItem(tasks[t])))]
               /\ SetTask(t, NextItem(tasks[t]))
    /\ UNCHANGED <<erp_connection_sync_state, connection_run, sync_event,
                   inventory_record, fixed, calls, hist>>

\* upsert_inventory_item: create the event the lookup did not find.
UpsertCreateEvent(t) ==
    /\ tasks[t].pc = "item_event_create"
    /\ inventory_record_event' =
          Insert(inventory_record_event,
                 NewRecordEventOf(tasks[t].record, tasks[t].conn,
                                  CurrentItem(tasks[t])))
    /\ SetTask(t, NextItem(tasks[t]))
    /\ UNCHANGED <<erp_connection_sync_state, connection_run, sync_event,
                   inventory_record, fixed, calls, hist>>

\* ---------------------------------------------------------------- cursor, event, run

\* A cursor kept for every remaining count other than zero.
NewCursorWhileNonZero(parsed) ==
    IF parsed.remaining_count # 0
    THEN Some([iterator_id |-> parsed.iterator_id,
               remaining_count |-> parsed.remaining_count])
    ELSE None

\* A cursor that keeps the remaining count and drops the iterator id.
NewCursorWithoutIterator(parsed) ==
    IF parsed.remaining_count > 0
    THEN Some([iterator_id |-> None, remaining_count |-> parsed.remaining_count])
    ELSE None

\* new_cursor: Some({iterator_id, remaining_count}) while items remain.
NewCursor(parsed) ==
    IF parsed.remaining_count > 0
    THEN Some([iterator_id |-> parsed.iterator_id,
               remaining_count |-> parsed.remaining_count])
    ELSE None

\* handle_response: the full rewrite of sync_cursor on the row read by id.
RespWriteCursor(t) ==
    /\ tasks[t].pc = "cursor"
    /\ LET id == Unwrap(tasks[t].sync_state).id
           parsed == Parsed(tasks[t])
       IN /\ erp_connection_sync_state' =
                IF id \in Rows(erp_connection_sync_state)
                THEN [erp_connection_sync_state EXCEPT
                         ![id].sync_cursor = NewCursor(parsed)]
                ELSE erp_connection_sync_state
          /\ lastCount' = [lastCount EXCEPT
                              ![tasks[t].conn] = Some(parsed.remaining_count)]
    /\ SetTask(t, [tasks[t] EXCEPT !.pc = "mark"])
    /\ UNCHANGED <<connection_run, sync_event, inventory_record,
                   inventory_record_event, fixed, calls, polled, ensured,
                   requested, replay>>

\* The status of an event whose method is not looked at.
NewStatusIgnoringList(is_list, has_errors) ==
    IF has_errors THEN "Error" ELSE "Success"

\* The status a processed response leaves the event in.
NewStatus(is_list, has_errors) ==
    IF has_errors THEN (IF is_list THEN "Pending" ELSE "Error")
    ELSE (IF is_list THEN "Pending" ELSE "Success")

\* The event patch after the items were processed.
ProcessedPatch(event, errors) ==
    LET has_errors == errors # <<>>
        is_list == event.sync_event_method = "List"
    IN [NoPatch EXCEPT
           !.status = Some(NewStatus(is_list, has_errors)),
           !.last_error = IF has_errors THEN Some([errors |-> errors]) ELSE None,
           !.last_errored_date = IF has_errors THEN Some("now") ELSE None]

\* errors.join("; ")
RECURSIVE Join(_)
Join(errors) ==
    IF errors = <<>> THEN <<>>
    ELSE IF Len(errors) = 1 THEN Head(errors)
    ELSE Head(errors) \o <<"; ">> \o Join(Tail(errors))

\* More to come for every remaining count other than zero.
HasMoreWhileNonZero(parsed) == parsed.remaining_count # 0

\* has_more: parsed.remaining_count > 0
HasMore(parsed) == parsed.remaining_count > 0

\* handle_response: mark the event, the run when items failed, and return.
RespMarkEvent(t) ==
    /\ tasks[t].pc = "mark"
    /\ LET errors == tasks[t].errors
       IN /\ sync_event' =
                IF IsSome(tasks[t].event)
                THEN PatchEventIfSome(sync_event, tasks[t].event,
                                      ProcessedPatch(Unwrap(tasks[t].event), errors))
                ELSE sync_event
          /\ connection_run' =
                IF errors # <<>>
                THEN PatchRunIfSome(connection_run, tasks[t].run,
                                    ErrorRunPatch(Join(errors)))
                ELSE connection_run
    /\ SetTask(t, Finish(tasks[t], "Ok", HasMore(Parsed(tasks[t]))))
    /\ UNCHANGED <<erp_connection_sync_state, inventory_record,
                   inventory_record_event, fixed, calls, hist>>

\* ---------------------------------------------------------------- return

\* The history of a replay when a call returns: a first call that processed
\* its document arms the replay with the inventory rows it left.
ReplayAtReturn(task) ==
    IF replay.stage = "first" /\ task.result = "Ok" /\ BranchOf(task) \in {"item", "cursor"}
    THEN [replay EXCEPT !.stage = "armed", !.inv = Inventory]
    ELSE NoReplay

\* The call returns to the adapter.
Return(t) ==
    /\ tasks[t].pc = "done"
    /\ SetTask(t, IdleTask)
    /\ replay' = ReplayAtReturn(tasks[t])
    /\ UNCHANGED <<store, fixed, calls, polled, ensured, requested, lastCount>>

Next ==
    \E t \in Tasks :
        \/ StartRequest(t)
        \/ StartResponse(t)
        \/ EnsureSyncStateCreate(t)
        \/ ReqFindEvent(t)
        \/ ReqCreateEvent(t)
        \/ ReqPatchEvent(t)
        \/ RespFindEvent(t)
        \/ RespHardError(t)
        \/ RespMarkEventAndRunError(t)
        \/ UpsertFindRecord(t)
        \/ UpsertCreateRecord(t)
        \/ UpsertFindEvent(t)
        \/ UpsertCreateEvent(t)
        \/ RespWriteCursor(t)
        \/ RespMarkEvent(t)
        \/ Return(t)

Spec == Init /\ [][Next]_vars

\* ---------------------------------------------------------------- replayed pages

\* The adapter of connection 1 sending pages that carry the same ListID.
ReplayInputs == [qbd_response_xml : {Some(1), Some(2)}, qbd_error : {None}]

StartReplayResponse(t) ==
    /\ calls < MaxReplayCalls
    /\ \E input \in ReplayInputs : Start(t, "response", "qb1", "pw1", input)

NextReplay ==
    \E t \in Tasks :
        \/ StartReplayResponse(t)
        \/ EnsureSyncStateCreate(t)
        \/ RespFindEvent(t)
        \/ UpsertFindRecord(t)
        \/ UpsertCreateRecord(t)
        \/ UpsertFindEvent(t)
        \/ UpsertCreateEvent(t)
        \/ RespWriteCursor(t)
        \/ RespMarkEvent(t)
        \/ Return(t)

SpecReplay == Init /\ [][NextReplay]_vars

\* ---------------------------------------------------------------- store failures

\* format!("ListID={}: {:?}", item.list_id, e) for a store error e.
ItemErrorOf(item) ==
    Format(<<<<"ListID=">>, item.list_id, <<": ">>, <<"Db(store error)">>>>)

\* The call notes the item whose store call failed (history only).
NoteFailed(task) == [task EXCEPT !.failed = @ \cup {CurrentItem(task).list_id}]

\* upsert_inventory_item: a lookup or an insert fails. `?` ends the upsert
\* with the error, and the loop of handle_response collects it.
UpsertStoreError(t) ==
    /\ tasks[t].pc \in {"item", "item_create", "item_event", "item_event_create"}
    /\ SetTask(t, NextItem([NoteFailed(tasks[t]) EXCEPT
                               !.errors = Append(@, ItemErrorOf(CurrentItem(tasks[t])))]))
    /\ UNCHANGED <<store, fixed, calls, hist>>

\* upsert_inventory_item: the patch of the record found fails. `let _ =`
\* drops the error and the upsert goes on to the event.
UpsertRecordPatchFails(t) ==
    /\ tasks[t].pc = "item"
    /\ \E r \in RecordsOf(tasks[t].conn, CurrentItem(tasks[t]).list_id) :
          SetTask(t, [NoteFailed(tasks[t]) EXCEPT !.pc = "item_event", !.record = r])
    /\ UNCHANGED <<store, fixed, calls, hist>>

\* upsert_inventory_item: the patch of the event found fails. `let _ =`
\* drops the error and the upsert returns Ok.
UpsertEventPatchFails(t) ==
    /\ tasks[t].pc = "item_event"
    /\ RecordEventsOf(tasks[t].record, tasks[t].conn) # {}
    /\ SetTask(t, NextItem(NoteFailed(tasks[t])))
    /\ UNCHANGED <<store, fixed, calls, hist>>

\* The adapter of connection 1, against a store whose calls may fail.
StartFaultRequest(t) ==
    /\ calls < MaxFaultCalls
    /\ Start(t, "request", "qb1", "pw1", NoInput)

StartFaultResponse(t) ==
    /\ calls < MaxFaultCalls
    /\ \E input \in ResponseInputs : Start(t, "response", "qb1", "pw1", input)

NextFaults ==
    \E t \in Tasks :
        \/ StartFaultRequest(t)
        \/ StartFaultResponse(t)
        \/ EnsureSyncStateCreate(t)
        \/ ReqFindEvent(t)
        \/ ReqCreateEvent(t)
        \/ ReqPatchEvent(t)
        \/ RespFindEvent(t)
        \/ RespHardError(t)
        \/ RespMarkEventAndRunError(t)
        \/ UpsertFindRecord(t)
        \/ UpsertCreateRecord(t)
        \/ UpsertFindEvent(t)
        \/ UpsertCreateEvent(t)
        \/ UpsertStoreError(t)
        \/ UpsertRecordPatchFails(t)
        \/ UpsertEventPatchFails(t)
        \/ RespWriteCursor(t)
        \/ RespMarkEvent(t)
        \/ Return(t)

SpecFaults == Init /\ [][NextFaults]_vars

\* ---------------------------------------------------------------- failing poll calls

\* The call notes the store call that failed (history only).
NoteStoreCall(task, call) == [task EXCEPT !.failed = @ \cup {<<call>>}]

\* The adapter of connection 1 sending a page with more to come, a page
\* without items or a soft error.
PhaseInputs == [qbd_response_xml : {Some(1), Some(3), Some(5)}, qbd_error : {None}]

StartPhaseRequest(t) ==
    /\ calls < MaxPhaseCalls
    /\ Start(t, "request", "qb1", "pw1", NoInput)

StartPhaseResponse(t) ==
    /\ calls < MaxPhaseCalls
    /\ \E input \in PhaseInputs : Start(t, "response", "qb1", "pw1", input)

\* handle_request: the lookup of ensure_sync_state fails; `?` ends the call
\* with the store error.
StartRequestLookupFails(t) ==
    /\ calls < MaxPhaseCalls
    /\ tasks[t].pc = "idle"
    /\ calls' = calls + 1
    /\ \E conn \in validate_credentials("qb1", "pw1") :
          /\ SetTask(t, Finish(NoteStoreCall([IdleTask EXCEPT
                                                 !.op = "request",
                                                 !.username = "qb1",
                                                 !.password = "pw1",
                                                 !.conn = conn],
                                             "sync-state lookup"),
                               "Db", FALSE))
          /\ polled' = polled \cup {conn}
    /\ replay' = NoReplay
    /\ UNCHANGED <<store, fixed, ensured, requested, lastCount>>

\* handle_request: the insert of ensure_sync_state, the event lookup or the
\* creation of the run fails; `?` ends the call with the store error.
ReqStoreError(t) ==
    /\ tasks[t].op = "request"
    /\ tasks[t].pc \in {"ensure_create", "find", "event"}
    /\ SetTask(t, Finish(NoteStoreCall(tasks[t],
                                       CASE tasks[t].pc = "ensure_create" -> "sync-state insert"
                                         [] tasks[t].pc = "find" -> "event lookup"
                                         [] OTHER -> "run insert"),
                         "Db", FALSE))
    /\ UNCHANGED <<store, fixed, calls, hist>>

\* handle_request, None branch: the run is created, the creation of the
\* event fails; `?` ends the call with the store error.
ReqEventCreateFails(t) ==
    /\ tasks[t].op = "request"
    /\ tasks[t].pc = "event" /\ ~IsSome(tasks[t].event)
    /\ connection_run' = Insert(connection_run, NewPollRun(tasks[t].conn))
    /\ SetTask(t, Finish(NoteStoreCall([tasks[t] EXCEPT
                                           !.run = Some(NewId(connection_run))],
                                       "event insert"),
                         "Db", FALSE))
    /\ UNCHANGED <<erp_connection_sync_state, sync_event, inventory_record,
                   inventory_record_event, fixed, calls, hist>>

\* handle_request, Some branch: the run is created, the patch of the event
\* fails. `let _ =` drops the error and the call answers has_work.
ReqEventPatchFails(t) ==
    /\ tasks[t].op = "request"
    /\ tasks[t].pc = "event" /\ IsSome(tasks[t].event)
    /\ connection_run' = Insert(connection_run, NewPollRun(tasks[t].conn))
    /\ SetTask(t, Finish(NoteStoreCall([tasks[t] EXCEPT
                                           !.run = Some(NewId(connection_run))],
                                       "event patch"),
                         "Ok", TRUE))
    /\ requested' = requested \cup {tasks[t].conn}
    /\ UNCHANGED <<erp_connection_sync_state, sync_event, inventory_record,
                   inventory_record_event, fixed, calls, polled, ensured,
                   lastCount, replay>>

\* handle_response: the insert of ensure_sync_state, the event lookup or the
\* load of the run fails; `?` ends the call with the store error.
RespStoreError(t) ==
    /\ tasks[t].op = "response"
    /\ tasks[t].pc \in {"ensure_create", "find"}
    /\ SetTask(t, Finish(NoteStoreCall(tasks[t],
                                       IF tasks[t].pc = "find" THEN "event lookup"
                                       ELSE "sync-state insert"),
                         "Db", FALSE))
    /\ UNCHANGED <<store, fixed, calls, hist>>

\* handle_response: the patch that takes the event out of InProgress fails.
\* `let _ =` drops the error and the call answers as if it had not.
RespMarkEventFails(t) ==
    /\ tasks[t].op = "response"
    /\ tasks[t].pc \in {"mark", "soft_error", "parse_error"}
    /\ IsSome(tasks[t].event)
    /\ connection_run' =
          IF tasks[t].pc = "mark" THEN connection_run
          ELSE PatchRunIfSome(connection_run, tasks[t].run,
                              ErrorRunPatch(ErrorMessageOf(tasks[t])))
    /\ SetTask(t, IF tasks[t].pc = "mark"
                  THEN Finish(NoteStoreCall(tasks[t], "event patch"),
                              "Ok", HasMore(Parsed(tasks[t])))
                  ELSE Finish(NoteStoreCall(tasks[t], "event patch"),
                              "XmlParse", FALSE))
    /\ UNCHANGED <<erp_connection_sync_state, sync_event, inventory_record,
                   inventory_record_event, fixed, calls, hist>>

NextPhaseFaults ==
    \E t \in Tasks :
        \/ StartPhaseRequest(t)
        \/ StartPhaseResponse(t)
        \/ StartRequestLookupFails(t)
        \/ EnsureSyncStateCreate(t)
        \/ ReqFindEvent(t)
        \/ ReqCreateEvent(t)
        \/ ReqPatchEvent(t)
        \/ ReqStoreError(t)
        \/ ReqEventCreateFails(t)
        \/ ReqEventPatchFails(t)
        \/ RespFindEvent(t)
        \/ RespStoreError(t)
        \/ RespMarkEventAndRunError(t)
        \/ UpsertFindRecord(t)
        \/ UpsertCreateRecord(t)
        \/ UpsertFindEvent(t)
        \/ UpsertCreateEvent(t)
        \/ RespWriteCursor(t)
        \/ RespMarkEvent(t)
        \/ RespMarkEventFails(t)
        \/ Return(t)

SpecPhaseFaults == Init /\ [][NextPhaseFaults]_vars

\* ---------------------------------------------------------------- provisioning

\* The store before any tenant was provisioned: tenant 1 has a QuickBooks
\* Online connection with its credentials, no tenant has a Desktop one.
InitProvisionConnections == <<
    [tenant_id |-> 1, erp_provider |-> "Quickbooks", erp_type |-> "Api",
     company_file_id |-> None]
>>

InitProvisionCredentials == <<
    [connection_id |-> 1, provider_user_id |-> Some(<<"qbo">>),
     provider_password |-> Some(<<"pw1">>), access_token |-> Some("tok")]
>>

NoRepeat == [stage |-> "none", tenant |-> 0, out |-> None, rows |-> <<>>]

InitProvision ==
    /\ connection_identity = InitProvisionConnections
    /\ erp_connection_credentials = InitProvisionCredentials
    /\ tenant = InitTenants
    /\ erp_connection_sync_state = <<>>
    /\ connection_run = <<>>
    /\ sync_event = <<>>
    /\ inventory_record = <<>>
    /\ inventory_record_event = <<>>
    /\ tasks = [t \in Tasks |-> IdleTask]
    /\ calls = 0
    /\ polled = {}
    /\ ensured = {}
    /\ requested = {}
    /\ lastCount = [c \in DOMAIN InitConnections |-> None]
    /\ replay = NoRepeat

\* The tenant ids a caller may send: none, an existing one, an unknown one.
ProvisionInputs == {None, Some(<<"TN_", "a">>), Some(<<"TN_", "zz">>)}

\* random_username, random_password, random_file_id: values no earlier call
\* drew, by the ordinal n of the call.
random_username(n) == <<"pro_portals_", ToString(n)>>
random_password(n) == <<"password", ToString(n)>>
random_file_id(n) == <<"file", ToString(n)>>

\* TenantService::get_by_tenant_id
TenantsOf(tenant_id) == {i \in Rows(tenant) : tenant[i].tenant_id = tenant_id}

\* A call of generate_qwc, as far as it has come.
ProvisionTask(n, tenant_db_id, tenant_id_str) ==
    [op |-> "provision", pc |-> "find", n |-> n, tenant |-> tenant_db_id,
     tenant_id |-> tenant_id_str, conn |-> 0, username |-> None,
     password |-> None, file_id |-> None, result |-> "none"]

FinishProvision(task, result) == [task EXCEPT !.pc = "done", !.result = result]

\* ConnectionIdentityService::get_by_tenant_id, filtered as find_qbd_connection
\* filters it: the Quickbooks/Desktop connections of the tenant.
QbdConnectionsOf(tenant_db_id) ==
    {c \in Rows(connection_identity) :
        /\ connection_identity[c].tenant_id = tenant_db_id
        /\ ~NotQbdDesktop(connection_identity[c])}

\* ErpConnectionCredentialsService::get_by_connection_id
CredentialsOf(conn) ==
    {i \in Rows(erp_connection_credentials) :
        erp_connection_credentials[i].connection_id = conn}

\* creds.provider_user_id.is_some() && creds.provider_password.is_some()
HasUserAndPassword(creds) ==
    IsSome(creds.provider_user_id) /\ IsSome(creds.provider_password)

\* find_qbd_connection: the connections that have a credentials row with
\* both a user id and a password.
UsableQbdConnections(tenant_db_id) ==
    {c \in QbdConnectionsOf(tenant_db_id) :
        \E i \in CredentialsOf(c) : HasUserAndPassword(erp_connection_credentials[i])}

\* find_qbd_connection: the first usable connection in the order of
\* get_by_tenant_id, latest created first; 0 when there is none.
find_qbd_connection(tenant_db_id) ==
    IF UsableQbdConnections(tenant_db_id) = {} THEN 0
    ELSE Max(UsableQbdConnections(tenant_db_id))

\* A file id drawn anew on every call.
FileIdAlwaysNew(conn, n) == random_file_id(n)

\* conn.company_file_id.unwrap_or_else(|| Uuid::new_v4().to_string())
FileIdOf(conn, n) == UnwrapOr(conn.company_file_id, random_file_id(n))

\* The history of a repeated call: a call for a tenant that has a usable
\* Desktop connection, started while no other call runs, is "first"; a call
\* for the same tenant started right after it returned Ok is "second".
RepeatAtStart(t, tenant_db_id) ==
    IF ~(OthersIdle(t) /\ tenant_db_id # 0
         /\ UsableQbdConnections(tenant_db_id) # {})
    THEN NoRepeat
    ELSE IF replay.stage = "armed" /\ replay.tenant = tenant_db_id
         THEN [replay EXCEPT !.stage = "second"]
         ELSE [stage |-> "first", tenant |-> tenant_db_id, out |-> None,
               rows |-> <<>>]

\* What a call answers.
OutputOf(task) == [tenant_id |-> task.tenant_id, username |-> task.username,
                   password |-> task.password, file_id |-> task.file_id]

RepeatAtReturn(task) ==
    IF replay.stage = "first" /\ task.result = "Ok"
    THEN [replay EXCEPT !.stage = "armed", !.out = Some(OutputOf(task)),
                        !.rows = <<connection_identity, erp_connection_credentials>>]
    ELSE NoRepeat

\* generate_qwc: ensure_tenant. A given id is looked up and the call ends with
\* TenantNotFound when no tenant has it; without an id a tenant is created.
StartProvision(t) ==
    /\ tasks[t].pc = "idle"
    /\ calls < MaxProvisionCalls
    /\ calls' = calls + 1
    /\ \E tenant_id \in ProvisionInputs :
          IF IsSome(tenant_id)
          THEN /\ UNCHANGED tenant
               /\ IF TenantsOf(Unwrap(tenant_id)) = {}
                  THEN /\ SetTask(t, FinishProvision(
                                        ProvisionTask(calls', 0, Unwrap(tenant_id)),
                                        "TenantNotFound"))
                       /\ replay' = RepeatAtStart(t, 0)
                  ELSE \E i \in TenantsOf(Unwrap(tenant_id)) :
                        /\ SetTask(t, ProvisionTask(calls', i, tenant[i].tenant_id))
                        /\ replay' = RepeatAtStart(t, i)
          ELSE /\ tenant' = Insert(tenant, NewTenant(ToString(calls')))
               /\ SetTask(t, ProvisionTask(calls', NewId(tenant),
                                           NewTenant(ToString(calls')).tenant_id))
               /\ replay' = RepeatAtStart(t, NewId(tenant))
    /\ UNCHANGED <<connection_identity, erp_connection_credentials, store,
                   polled, ensured, requested, lastCount>>

\* get_or_create_qbd_credentials_and_qwc: find_qbd_connection; the connection
\* found is answered with its credentials, otherwise new values are drawn.
\* The lookups of find_qbd_connection are one step.
ProvisionFind(t) ==
    /\ tasks[t].pc = "find"
    /\ LET c == find_qbd_connection(tasks[t].tenant)
           n == tasks[t].n
       IN IF c # 0
          THEN \E i \in {j \in CredentialsOf(c) :
                            HasUserAndPassword(erp_connection_credentials[j])} :
                 SetTask(t, FinishProvision(
                     [tasks[t] EXCEPT
                         !.conn = c,
                         !.username = erp_connection_credentials[i].provider_user_id,
                         !.password = erp_connection_credentials[i].provider_password,
                         !.file_id = Some(FileIdOf(connection_identity[c], n))],
                     "Ok"))
          ELSE SetTask(t, [tasks[t] EXCEPT
                              !.pc = "create_connection",
                              !.username = Some(random_username(n)),
                              !.password = Some(random_password(n)),
                              !.file_id = Some(random_file_id(n))])
    /\ UNCHANGED <<store, fixed, calls, hist>>

\* get_or_create_qbd_credentials_and_qwc: conn_svc.create
ProvisionCreateConnection(t) ==
    /\ tasks[t].pc = "create_connection"
    /\ connection_identity' =
          Insert(connection_identity,
                 [tenant_id |-> tasks[t].tenant, erp_provider |-> "Quickbooks",
                  erp_type |-> "Desktop", company_file_id |-> tasks[t].file_id])
    /\ SetTask(t, [tasks[t] EXCEPT !.pc = "create_credentials",
                                   !.conn = NewId(connection_identity)])
    /\ UNCHANGED <<erp_connection_credentials, tenant, store, calls, hist>>

\* get_or_create_qbd_credentials_and_qwc: cred_svc.create, then the answer.
ProvisionCreateCredentials(t) ==
    /\ tasks[t].pc = "create_credentials"
    /\ erp_connection_credentials' =
          Insert(erp_connection_credentials,
                 [connection_id |-> tasks[t].conn,
                  provider_user_id |-> tasks[t].username,
                  provider_password |-> tasks[t].password,
                  access_token |-> None])
    /\ SetTask(t, FinishProvision(tasks[t], "Ok"))
    /\ UNCHANGED <<connection_identity, tenant, store, calls, hist>>

\* A store call of get_or_create_qbd_credentials_and_qwc fails: `?` ends the
\* call with Db, and what it wrote before stays (there is no transaction).
ProvisionStoreError(t) ==
    /\ tasks[t].pc \in {"find", "create_connection", "create_credentials"}
    /\ SetTask(t, FinishProvision(tasks[t], "Db"))
    /\ UNCHANGED <<store, fixed, calls, hist>>

\* generate_qwc_handler answers the caller.
ProvisionReturn(t) ==
    /\ tasks[t].pc = "done"
    /\ SetTask(t, IdleTask)
    /\ replay' = RepeatAtReturn(tasks[t])
    /\ UNCHANGED <<store, fixed, calls, polled, ensured, requested, lastCount>>

NextProvision ==
    \E t \in Tasks :
        \/ StartProvision(t)
        \/ ProvisionFind(t)
        \/ ProvisionCreateConnection(t)
        \/ ProvisionCreateCredentials(t)
        \/ ProvisionStoreError(t)
        \/ ProvisionReturn(t)

SpecProvision == InitProvision /\ [][NextProvision]_vars

\* ---------------------------------------------------------------- listings

Min(a, b) == IF a < b THEN a ELSE b

\* A tenant table of n rows.
TenantTable(n) == [i \in 1..n |-> NewTenant(ToString(i))]

InitPages ==
    /\ tenant \in {TenantTable(n) : n \in 0..MaxTotal}
    /\ connection_identity = <<>>
    /\ erp_connection_credentials = <<>>
    /\ erp_connection_sync_state = <<>>
    /\ connection_run = <<>>
    /\ sync_event = <<>>
    /\ inventory_record = <<>>
    /\ inventory_record_event = <<>>
    /\ tasks = [t \in Tasks |-> IdleTask]
    /\ calls = 0
    /\ polled = {}
    /\ ensured = {}
    /\ requested = {}
    /\ lastCount = [c \in DOMAIN InitConnections |-> None]
    /\ replay = NoReplay

\* find().filter(condition).order_by_desc(CreatedAt) with no filter given:
\* the ids of all rows, the latest created first.
ListingOf(table) == [i \in 1..Len(table) |-> Len(table) + 1 - i]

\* A page count that drops the last, partly filled page.
TotalPagesRoundedDown(total, per_page) == total \div per_page

\* (total as f64 / per_page as f64).ceil() as u64, for per_page >= 1 and a
\* total below 2^53, where both conversions and the quotient's integer part
\* are exact: the quotient, plus one when the division leaves a remainder.
TotalPages(total, per_page) ==
    IF total % per_page = 0 THEN total \div per_page ELSE total \div per_page + 1

\* u64::saturating_sub
saturating_sub(a, b) == IF a > b THEN a - b ELSE 0

\* Paginator::fetch_page(index): the rows index*per_page+1 .. (index+1)*per_page
\* of the listing, as far as it has them.
fetch_page(listing, per_page, index) ==
    SubSeq(listing, index * per_page + 1, Min(Len(listing), (index + 1) * per_page))

\* TenantService::get_all: count the rows, compute total_pages.
GetAllCount(t) ==
    /\ tasks[t].pc = "idle"
    /\ calls < MaxListCalls
    /\ calls' = calls + 1
    /\ \E page \in 0..MaxPage, per_page \in 1..MaxPerPage :
          SetTask(t, [op |-> "get_all", pc |-> "fetch", page |-> page,
                      per_page |-> per_page, total |-> Len(ListingOf(tenant)),
                      total_pages |-> TotalPages(Len(ListingOf(tenant)), per_page),
                      items |-> <<>>, result |-> "none"])
    /\ UNCHANGED <<store, fixed, hist>>

\* TenantService::get_all: fetch the page, answer PaginatedTenants.
GetAllFetch(t) ==
    /\ tasks[t].pc = "fetch"
    /\ SetTask(t, [tasks[t] EXCEPT
                      !.pc = "done", !.result = "Ok",
                      !.items = fetch_page(ListingOf(tenant), tasks[t].per_page,
                                           saturating_sub(tasks[t].page, 1))])
    /\ UNCHANGED <<store, fixed, calls, hist>>

\* The listing is handed to the caller.
GetAllReturn(t) ==
    /\ tasks[t].pc = "done"
    /\ SetTask(t, IdleTask)
    /\ UNCHANGED <<store, fixed, calls, hist>>

NextPages ==
    \E t \in Tasks : GetAllCount(t) \/ GetAllFetch(t) \/ GetAllReturn(t)

SpecPages == InitPages /\ [][NextPages]_vars

\* ---------------------------------------------------------------- sync-state updates

\* The JSON value null, which a Some(..) patch may carry.
JsonNull == [json |-> "null"]

\* Cursors a sync-state row may hold.
CursorAbc == [iterator_id |-> Some(<<"{abc}">>), remaining_count |-> 1]
CursorDef == [iterator_id |-> Some(<<"{def}">>), remaining_count |-> 2]

\* Sync-state rows of connections 1 and 2, with the lock owner column.
SyncStateRow(connection_id, sync_cursor) ==
    [connection_id |-> connection_id, sync_cursor |-> sync_cursor,
     sync_lock_owner |-> None]

NoWrite == [stage |-> "none", id |-> 0, patch |-> <<>>]

InitSyncStates ==
    /\ connection_identity = InitConnections
    /\ erp_connection_credentials = InitCredentials
    /\ tenant = InitTenants
    /\ \E c1 \in {None, Some(CursorAbc)}, c2 \in {None, Some(CursorDef)} :
          erp_connection_sync_state = <<SyncStateRow(1, c1), SyncStateRow(2, c2)>>
    /\ connection_run = <<>>
    /\ sync_event = <<>>
    /\ inventory_record = <<>>
    /\ inventory_record_event = <<>>
    /\ tasks = [t \in Tasks |-> IdleTask]
    /\ calls = 0
    /\ polled = {}
    /\ ensured = {}
    /\ requested = {}
    /\ lastCount = [c \in DOMAIN InitConnections |-> None]
    /\ replay = NoWrite

\* UpdateErpConnectionSyncState values a caller may pass.
SyncStatePatches ==
    [sync_cursor : {None, Some(JsonNull), Some(CursorAbc), Some(CursorDef)},
     sync_lock_owner : {None, Some("worker")}]

\* A patch that writes every column it is given, None included.
SyncStateUpdateAllColumns(row, patch) ==
    [row EXCEPT !.sync_cursor = patch.sync_cursor,
                !.sync_lock_owner = patch.sync_lock_owner]

\* The column writes of update_by_uuid and update_by_connection_id: a column
\* is set only when the patch carries Some(v).
SyncStateUpdate(row, patch) ==
    [row EXCEPT !.sync_cursor = IF IsSome(patch.sync_cursor)
                                THEN patch.sync_cursor ELSE @,
                !.sync_lock_owner = IF IsSome(patch.sync_lock_owner)
                                    THEN patch.sync_lock_owner ELSE @]

\* ErpConnectionSyncStateService::update_by_uuid on a row that exists.
UpdateByUuid ==
    /\ calls < MaxCursorWrites
    /\ \E id \in Rows(erp_connection_sync_state), patch \in SyncStatePatches :
          /\ erp_connection_sync_state' =
                [erp_connection_sync_state EXCEPT ![id] = SyncStateUpdate(@, patch)]
          /\ replay' = [stage |-> "update_by_uuid", id |-> id, patch |-> patch]
    /\ calls' = calls + 1
    /\ UNCHANGED <<connection_run, sync_event, inventory_record,
                   inventory_record_event, fixed, tasks, polled, ensured,
                   requested, lastCount>>

\* ErpConnectionSyncStateService::update_by_connection_id: the row of the
\* connection, NotFound when it has none.
UpdateByConnectionId ==
    /\ calls < MaxCursorWrites
    /\ \E connection_id \in DOMAIN InitConnections, patch \in SyncStatePatches :
          IF SyncStatesOf(connection_id) = {}
          THEN /\ replay' = [stage |-> "NotFound", id |-> 0, patch |-> patch]
               /\ UNCHANGED erp_connection_sync_state
          ELSE \E id \in SyncStatesOf(connection_id) :
                /\ erp_connection_sync_state' =
                      [erp_connection_sync_state EXCEPT
                          ![id] = SyncStateUpdate(@, patch)]
                /\ replay' = [stage |-> "update_by_connection_id", id |-> id,
                              patch |-> patch]
    /\ calls' = calls + 1
    /\ UNCHANGED <<connection_run, sync_event, inventory_record,
                   inventory_record_event, fixed, tasks, polled, ensured,
                   requested, lastCount>>

\* The documents handle_response processes: parsed, statusCode "0".
ProcessedBodies ==
    {k \in DOMAIN Bodies :
        IsSome(ParsedBodies[k]) /\ Unwrap(ParsedBodies[k]).status_code = <<"0">>}

\* handle_response: the rewrite of the whole sync_cursor column from the
\* document processed.
RewriteCursor ==
    /\ calls < MaxCursorWrites
    /\ \E id \in Rows(erp_connection_sync_state), k \in ProcessedBodies :
          /\ erp_connection_sync_state' =
                [erp_connection_sync_state EXCEPT
                    ![id].sync_cursor = NewCursor(Unwrap(ParsedBodies[k]))]
          /\ replay' = [stage |-> "rewrite", id |-> id, patch |-> <<>>]
    /\ calls' = calls + 1
    /\ UNCHANGED <<connection_run, sync_event, inventory_record,
                   inventory_record_event, fixed, tasks, polled, ensured,
                   requested, lastCount>>

NextSyncStates == UpdateByUuid \/ UpdateByConnectionId \/ RewriteCursor

SpecSyncStates == InitSyncStates /\ [][NextSyncStates]_vars

\* ---------------------------------------------------------------- properties

\* The List/Inventory events linked to a sync-state row, whatever their status.
RecurringEvents(sync_state_id) ==
    {i \in Rows(sync_event) : IsRecurringEventOf(sync_event[i], sync_state_id)}

CursorOf(sync_state_id) == erp_connection_sync_state[sync_state_id].sync_cursor

\* C1: in every reachable state each connection's sync-state has at most one
\* List/Inventory event whose status is InProgress.
C1_AtMostOneInProgress ==
    \A s \in Rows(erp_connection_sync_state) : Cardinality(InProgressEvents(s)) <= 1

\* C2: once a request phase of a connection has succeeded, exactly one
\* List/Inventory event is linked to the connection's sync-state.
C2_ExactlyOneRecurringEvent ==
    \A c \in requested :
        \A s \in SyncStatesOf(c) : Cardinality(RecurringEvents(s)) = 1

C5_OneRecordPerKey ==
    \A i, j \in Rows(inventory_record) :
        (/\ inventory_record[i].originating_connection_id
                = inventory_record[j].originating_connection_id
         /\ inventory_record[i].system_id_key = inventory_record[j].system_id_key
         /\ inventory_record[i].system_id = inventory_record[j].system_id)
        => i = j

\* C6: a response call that re-sends the document of the call before it, both
\* run with no other call in progress, leaves the inventory records and the
\* inventory record events exactly as the first call left them.
C6_ReplayChangesNothing ==
    (replay.stage = "second" /\ \E t \in Tasks : tasks[t].pc = "done")
    => Inventory = replay.inv

\* The rejection C7 states: no credentials row for the username, a stored
\* password that is not the supplied one, or a connection that is not
\* Quickbooks/Desktop.
StatedUnauthorized(username, password) ==
    LET found == {i \in Rows(erp_connection_credentials) :
                    erp_connection_credentials[i].provider_user_id = Some(username)}
    IN \/ found = {}
       \/ \E i \in found :
            LET conn == connection_identity[erp_connection_credentials[i].connection_id]
            IN \/ erp_connection_credentials[i].provider_password # Some(password)
               \/ conn.erp_provider # "Quickbooks"
               \/ conn.erp_type # "Desktop"

\* C7: a call is rejected as Unauthorized exactly when no credentials row has
\* the username, the stored password is not exactly the supplied one, or the
\* connection is not Quickbooks/Desktop; every other call goes on.
C7_UnauthorizedExactlyWhen ==
    \A t \in Tasks :
        tasks[t].pc # "idle"
        => ((tasks[t].result = "Unauthorized")
            <=> StatedUnauthorized(tasks[t].username, tasks[t].password))

\* C8: every step of a call rejected as Unauthorized, from its start to its
\* return, leaves every table of the store unchanged.
C8_UnauthorizedLeavesStore ==
    [][\A t \in Tasks :
          (/\ tasks'[t] # tasks[t]
           /\ (tasks[t].result = "Unauthorized" \/ tasks'[t].result = "Unauthorized"))
          => store' = store]_vars

\* C8's case: a call is rejected while the store holds rows of earlier calls.
C8_Witness ==
    \E t \in Tasks :
        /\ tasks[t].result = "Unauthorized"
        /\ erp_connection_sync_state # <<>> /\ sync_event # <<>>
        /\ connection_run # <<>> /\ inventory_record # <<>>

\* C9: a connection has no sync-state row before its first validated call,
\* never more than one, and exactly one once no validated call for it is still
\* inside ensure_sync_state.
C9_OneSyncStatePerConnection ==
    \A c \in DOMAIN connection_identity :
        LET n == Cardinality(SyncStatesOf(c))
            ensuring == \E t \in Tasks :
                            tasks[t].conn = c /\ tasks[t].pc = "ensure_create"
        IN /\ n <= 1
           /\ c \notin polled => n = 0
           /\ (c \in polled /\ ~ensuring) => n = 1

\* C9's case: two calls of a connection raced through ensure_sync_state; one
\* inserted the row, the other's insert was refused.
C9_Witness ==
    \E t \in Tasks :
        /\ tasks[t].pc = "done" /\ tasks[t].result = "Db"
        /\ Cardinality(SyncStatesOf(tasks[t].conn)) = 1

\* C10: every event with a connection_run_id references a run whose
\* connection_id is the connection_id of the sync-state the event is linked to.
C10_RunOfSameConnection ==
    \A i \in Rows(sync_event) :
        IsSome(sync_event[i].connection_run_id)
        => LET r == Unwrap(sync_event[i].connection_run_id)
               s == sync_event[i].connection_sync_state_id
           IN /\ r \in Rows(connection_run)
              /\ IsSome(s) /\ Unwrap(s) \in Rows(erp_connection_sync_state)
              /\ connection_run[r].connection_id
                    = erp_connection_sync_state[Unwrap(s)].connection_id

\* C10's case: an event of the second connection was re-driven and is linked
\* to the run of its second cycle.
C10_Witness ==
    \E i \in Rows(sync_event) :
        /\ sync_event[i].attempts = 2
        /\ IsSome(sync_event[i].connection_run_id)
        /\ Unwrap(sync_event[i].connection_run_id) > 1
        /\ erp_connection_sync_state[Unwrap(sync_event[i].connection_sync_state_id)]
              .connection_id = 2

\* C11: every connection run whose status is Error carries an error message
\* (a run is created Success with none; the hard-error, parse-failure,
\* soft-error and per-item-error paths write status and message together).
C11_ErrorRunHasMessage ==
    \A r \in Rows(connection_run) :
        /\ connection_run[r].status = "Error" => IsSome(connection_run[r].error_message)
        /\ connection_run[r].status = "Success" => ~IsSome(connection_run[r].error_message)

\* A run that became Error through items whose upsert failed.
C11_Witness ==
    \E t \in Tasks :
        /\ tasks[t].pc = "done" /\ tasks[t].errors # <<>> /\ IsSome(tasks[t].run)
        /\ connection_run[Unwrap(tasks[t].run)].status = "Error"
        /\ connection_run[Unwrap(tasks[t].run)].error_message
              = Some(Join(tasks[t].errors))

\* The root element of a document the adapter sent, and an attribute it carries
\* (the element may be written with an end tag or self-closing).
RootAttr(k, key) ==
    LET attrs == Bodies[k][1].attrs
        at == {i \in DOMAIN attrs : attrs[i][1] = key}
    IN IF at = {} THEN None ELSE Some(attrs[CHOOSE i \in at : TRUE][2])

WellFormed(k) == \A i \in DOMAIN Bodies[k] : Bodies[k][i].kind # "Err"

\* The statusCode a document carries, "0" when it has none.
CarriedStatus(k) == UnwrapOr(RootAttr(k, "statusCode"), <<"0">>)

\* The iteratorRemainingCount a document carries, 0 when it has none.
CarriedCount(k) ==
    IF IsSome(RootAttr(k, "iteratorRemainingCount"))
    THEN UnwrapOr(ParseInt(Unwrap(RootAttr(k, "iteratorRemainingCount"))), 0)
    ELSE 0

\* A response call that has passed the credential check and has its answer.
Answered(t) ==
    /\ tasks[t].pc = "done" /\ tasks[t].op = "response"
    /\ tasks[t].result \in {"Ok", "XmlParse"}

\* The document of a response call that carries statusCode "0" and no qbd_error.
CarriesStatusZero(task) ==
    /\ ~IsSome(task.input.qbd_error) /\ IsSome(task.input.qbd_response_xml)
    /\ WellFormed(Unwrap(task.input.qbd_response_xml))
    /\ CarriedStatus(Unwrap(task.input.qbd_response_xml)) = <<"0">>

CarriedCursor(k) ==
    IF CarriedCount(k) > 0
    THEN Some([iterator_id |-> RootAttr(k, "iteratorID"),
               remaining_count |-> CarriedCount(k)])
    ELSE None

\* The response call t rewrites the cursor in this step.
WritesCursor(t) == tasks[t].pc = "cursor" /\ tasks'[t].pc = "mark"

WrittenCursors == {CarriedCursor(k) : k \in {j \in DOMAIN Bodies : WellFormed(j)}}

EventAfter(t) == sync_event'[Unwrap(tasks[t].event).id]
RunAfter(t) == connection_run'[Unwrap(tasks[t].run)]

\* C15: when a response call that carries a qbd_error found the recurring
\* event InProgress, its journaling step leaves the event Error with
\* last_error {"message": the error string} and a last_errored_date, leaves the
\* event's run Error with that string as error_message, and the call answers
\* success with has_more = FALSE.
C15_HardErrorJournaled ==
    [][\A t \in Tasks :
          (tasks[t].pc = "hard_error" /\ tasks'[t].pc = "done"
           /\ IsSome(tasks[t].event)) =>
              LET message == <<Unwrap(tasks[t].input.qbd_error)>>
              IN /\ EventAfter(t).status = "Error"
                 /\ EventAfter(t).last_error = Some([message |-> message])
                 /\ IsSome(EventAfter(t).last_errored_date)
                 /\ IsSome(tasks[t].run)
                 /\ RunAfter(t).status = "Error"
                 /\ RunAfter(t).error_message = Some(message)
                 /\ tasks'[t].result = "Ok" /\ ~tasks'[t].has]_vars

\* A call with a qbd_error has answered after it found the event InProgress.
C15_Witness ==
    \E t \in Tasks :
        /\ tasks[t].pc = "done" /\ IsSome(tasks[t].input.qbd_error)
        /\ IsSome(tasks[t].event) /\ IsSome(tasks[t].run)
        /\ sync_event[Unwrap(tasks[t].event).id].status = "Error"
        /\ connection_run[Unwrap(tasks[t].run)].status = "Error"
        /\ tasks[t].result = "Ok"

\* The document of a response call that carries a statusCode other than "0".
CarriesSoftError(task) ==
    /\ ~IsSome(task.input.qbd_error) /\ IsSome(task.input.qbd_response_xml)
    /\ WellFormed(Unwrap(task.input.qbd_response_xml))
    /\ CarriedStatus(Unwrap(task.input.qbd_response_xml)) # <<"0">>

\* The message of a soft error: the code and the statusMessage of a document.
SoftErrorMessage(k) ==
    Format(<<<<"QBD status ">>, CarriedStatus(k), <<": ">>,
             UnwrapOr(RootAttr(k, "statusMessage"), <<>>)>>)

\* C16: when a response call whose document carries a statusCode other than
\* "0" found the recurring event InProgress, the step that ends the call
\* leaves the event and its run Error with a message made of the code and the
\* statusMessage, and the call answers with the parser error (422).
C16_SoftErrorJournaled ==
    [][\A t \in Tasks :
          (tasks[t].op = "response" /\ tasks[t].pc # "done" /\ tasks'[t].pc = "done"
           /\ IsSome(tasks[t].event) /\ CarriesSoftError(tasks[t])) =>
              LET message == SoftErrorMessage(Unwrap(tasks[t].input.qbd_response_xml))
              IN /\ EventAfter(t).status = "Error"
                 /\ EventAfter(t).last_error = Some([message |-> message])
                 /\ IsSome(tasks[t].run)
                 /\ RunAfter(t).status = "Error"
                 /\ RunAfter(t).error_message = Some(message)
                 /\ tasks'[t].result = "XmlParse"]_vars

\* A collected message names the item with this ListID.
NamesItem(message, list_id) ==
    /\ Len(message) > Len(list_id)
    /\ SubSeq(message, 1, 1 + Len(list_id)) = <<"ListID=">> \o list_id

\* C17: when store calls of the upsert failed for items of a response (a
\* lookup, an insert or a patch of the record or of its event) and the call
\* found the List event, the step that ends the call leaves the event Pending
\* with last_error {"errors": [...]} naming every such item, leaves the run
\* Error with the joined messages, and the call answers success.
C17_ItemFailuresJournaled ==
    [][\A t \in Tasks :
          (tasks[t].pc = "mark" /\ tasks'[t].pc = "done"
           /\ tasks[t].failed # {} /\ IsSome(tasks[t].event)) =>
              /\ EventAfter(t).status = "Pending"
              /\ IsSome(EventAfter(t).last_error)
              /\ "errors" \in DOMAIN Unwrap(EventAfter(t).last_error)
              /\ \A id \in tasks[t].failed :
                    \E i \in DOMAIN Unwrap(EventAfter(t).last_error).errors :
                        NamesItem(Unwrap(EventAfter(t).last_error).errors[i], id)
              /\ IsSome(tasks[t].run)
              /\ RunAfter(t).status = "Error"
              /\ RunAfter(t).error_message = Some(Join(tasks[t].errors))
              /\ tasks'[t].result = "Ok"]_vars

C19_OneDesktopConnectionPerTenant ==
    \A i \in Rows(tenant) : Cardinality(QbdConnectionsOf(i)) <= 1

\* The least number of pages of per_page rows that hold total rows.
CeilingOf(total, per_page) ==
    CHOOSE n \in 0..total :
        /\ n * per_page >= total
        /\ \A k \in 0..(n - 1) : k * per_page < total

\* The rows of the 1-based page p of a listing.
RowsOfPage(listing, per_page, p) ==
    [i \in 1..Max({0, Min(per_page, Len(listing) - (p - 1) * per_page)}) |->
        listing[(p - 1) * per_page + i]]

\* C20: a listing answers total_pages = ceil(total / per_page) for every
\* total >= 0 and per_page >= 1 (0 pages for an empty result); page p >= 1
\* holds the p-th run of per_page rows, and page 0 holds the rows of page 1.
C20_PagesOfListing ==
    \A t \in Tasks :
        (tasks[t].pc = "done" /\ tasks[t].op = "get_all") =>
            LET listing == ListingOf(tenant)
                asked == tasks[t].page
            IN /\ tasks[t].total = Len(tenant)
               /\ tasks[t].total_pages = CeilingOf(tasks[t].total, tasks[t].per_page)
               /\ tasks[t].total = 0 => tasks[t].total_pages = 0
               /\ tasks[t].items =
                     RowsOfPage(listing, tasks[t].per_page,
                                IF asked = 0 THEN 1 ELSE asked)

\* A listing of five rows by pages of two was asked for page 0 and answered
\* three pages and the two latest rows.
C20_Witness ==
    \E t \in Tasks :
        /\ tasks[t].pc = "done" /\ tasks[t].op = "get_all"
        /\ tasks[t].total = 5 /\ tasks[t].per_page = 2 /\ tasks[t].page = 0
        /\ tasks[t].total_pages = 3 /\ tasks[t].items = <<5, 4>>

\* The call t ends the upsert of its current item's event in this step.
EndsEventUpsert(t) ==
    \/ /\ tasks[t].pc = "item_event"
       /\ tasks'[t].pc \notin {"item_event", "item_event_create"}
    \/ /\ tasks[t].pc = "item_event_create"
       /\ tasks'[t].pc # "item_event_create"

\* The most recent event of the record and connection of call t, after this step.
LatestEventAfter(t) ==
    inventory_record_event'[
        Max({i \in DOMAIN inventory_record_event' :
                /\ inventory_record_event'[i].inventory_record_id = tasks[t].record
                /\ inventory_record_event'[i].connection_id = tasks[t].conn})]

\* C21: when a response call has upserted an item that carries no SalesPrice,
\* the most recent event of that record and connection has a null price,
\* whether the event was created by the call or existed with a price.
C21_MissingPriceIsNull ==
    [][\A t \in Tasks :
          (EndsEventUpsert(t)
           /\ "SalesPrice" \notin DOMAIN CurrentItem(tasks[t]).raw) =>
              LatestEventAfter(t).price = None]_vars

\* The status changes the state machine of the recurring event allows.
StatedTransitions ==
    {<<"Pending", "InProgress">>, <<"Error", "InProgress">>,
     <<"InProgress", "Pending">>, <<"InProgress", "Error">>}

\* C22: in every step the status of a List/Inventory event changes only from
\* Pending or Error to InProgress or from InProgress to Pending or Error, and
\* an event that is created is created InProgress.
C22_OnlyStatedTransitions ==
    [][\A i \in DOMAIN sync_event' :
          IF i \in DOMAIN sync_event
          THEN sync_event[i].status # sync_event'[i].status =>
                  <<sync_event[i].status, sync_event'[i].status>> \in StatedTransitions
          ELSE sync_event'[i].status = "InProgress"]_vars

\* The request call t answers in this step.
RequestAnswers(t) ==
    tasks[t].op = "request" /\ tasks[t].pc = "event" /\ tasks'[t].pc = "done"

\* This step appends exactly one row to the table and leaves the others.
AppendsOne(old, new) ==
    Len(new) = Len(old) + 1 /\ SubSeq(new, 1, Len(old)) = old

StartQuery == [qbxml |-> "13.0", onError |-> "stopOnError", requestID |-> "1",
               iterator |-> "Start", iteratorID |-> None, maxReturned |-> PAGE_SIZE]

\* C23: on the first poll of a connection (the call created the sync-state
\* row, no event is linked to it) a request call leaves exactly one sync-state
\* row of the connection, creates exactly one run (Success, Poll) and exactly
\* one event (PullFromExternal, List, Inventory, attempts 1, InProgress) linked
\* to that run and to the sync-state, and answers a Start query.
C23_FirstPollCreates ==
    [][\A t \in Tasks :
          (RequestAnswers(t) /\ tasks[t].created
           /\ RecurringEvents(Unwrap(tasks[t].sync_state).id) = {}) =>
              /\ SyncStatesOf(tasks[t].conn) = {Unwrap(tasks[t].sync_state).id}
              /\ AppendsOne(connection_run, connection_run')
              /\ connection_run'[Len(connection_run')]
                    = [connection_id |-> tasks[t].conn, status |-> "Success",
                       run_type |-> "Poll", error_message |-> None]
              /\ AppendsOne(sync_event, sync_event')
              /\ sync_event'[Len(sync_event')]
                    = [event_direction |-> "PullFromExternal",
                       sync_event_method |-> "List",
                       sync_event_category |-> "Inventory",
                       attempts |-> 1, status |-> "InProgress",
                       last_error |-> None, last_errored_date |-> None,
                       connection_sync_state_id |-> Some(Unwrap(tasks[t].sync_state).id),
                       connection_run_id |-> Some(Len(connection_run'))]
              /\ tasks'[t].result = "Ok" /\ tasks'[t].has
              /\ tasks'[t].xml = Some(StartQuery)]_vars

\* A first poll has answered: the call created the sync-state row and the
\* only event of the connection.
C23_Witness ==
    \E t \in Tasks :
        /\ tasks[t].op = "request" /\ tasks[t].pc = "done" /\ tasks[t].created
        /\ tasks[t].result = "Ok" /\ ~IsSome(tasks[t].event)
        /\ Cardinality(RecurringEvents(Unwrap(tasks[t].sync_state).id)) = 1
        /\ Len(connection_run) = 1

\* C24: a request call that found the recurring event Pending or Error creates
\* exactly one run (Success, Poll) and patches that event, whichever of the two
\* it was, to InProgress with the attempts it found plus one, linked to the
\* new run; it creates no event and leaves every other event alone.
C24_RedriveSameEvent ==
    [][\A t \in Tasks :
          (RequestAnswers(t) /\ IsSome(tasks[t].event)) =>
              LET e == Unwrap(tasks[t].event).id
              IN  /\ AppendsOne(connection_run, connection_run')
                  /\ connection_run'[Len(connection_run')]
                        = [connection_id |-> tasks[t].conn, status |-> "Success",
                           run_type |-> "Poll", error_message |-> None]
                  /\ DOMAIN sync_event' = DOMAIN sync_event
                  /\ \A i \in DOMAIN sync_event \ {e} :
                        sync_event'[i] = sync_event[i]
                  /\ sync_event'[e]
                        = [sync_event[e] EXCEPT
                             !.status = "InProgress",
                             !.attempts = Unwrap(tasks[t].event).attempts + 1,
                             !.connection_run_id = Some(Len(connection_run'))]
                  /\ tasks'[t].result = "Ok" /\ tasks'[t].has]_vars

\* A request call has re-driven an event that had ended in Error: the event is
\* InProgress on its second attempt, still carrying the error, linked to the
\* second run.
C24_Witness ==
    \E t \in Tasks :
        /\ tasks[t].op = "request" /\ tasks[t].pc = "done"
        /\ IsSome(tasks[t].event) /\ tasks[t].result = "Ok"
        /\ LET e == sync_event[Unwrap(tasks[t].event).id]
           IN  /\ e.status = "InProgress" /\ e.attempts = 2
               /\ e.last_error # None
               /\ e.connection_run_id = tasks[t].run
        /\ Len(sync_event) = 1 /\ Len(connection_run) = 2

\* A store call of the upsert fails for the call t in this step.
UpsertFails(t) == tasks'[t].failed \ tasks[t].failed # {}

\* The item has a record of the connection, and the record has an event.
Upserted(conn, item) ==
    \E r \in RecordsOf(conn, item.list_id) : RecordEventsOf(r, conn) # {}

\* C25: a failing upsert of one item does not end the batch. The step in which
\* a store call fails removes and changes no inventory row and leaves the
\* call in the loop or at the cursor update; and when a call with failed
\* items rewrites the cursor, every other item of its document that has a
\* ListID has its record and event, and the cursor becomes the one the
\* document carries.
C25_FailedItemKeepsBatch ==
    [][\A t \in Tasks :
          /\ UpsertFails(t) =>
                /\ inventory_record' = inventory_record
                /\ inventory_record_event' = inventory_record_event
                /\ tasks'[t].pc \in {"item", "item_event", "cursor"}
          /\ (WritesCursor(t) /\ tasks[t].failed # {}) =>
                /\ \A i \in DOMAIN Parsed(tasks[t]).items :
                      Parsed(tasks[t]).items[i].list_id \notin tasks[t].failed
                          => Upserted(tasks[t].conn, Parsed(tasks[t]).items[i])
                /\ CursorOf(Unwrap(tasks[t].sync_state).id)'
                      = CarriedCursor(Unwrap(tasks[t].input.qbd_response_xml))]_vars

\* A call whose first item failed has created the record and event of its
\* second item, the only inventory rows there are, and stored the cursor.
C25_Witness ==
    \E t \in Tasks :
        /\ tasks[t].pc = "mark" /\ tasks[t].input.qbd_response_xml = Some(2)
        /\ tasks[t].failed = {<<"80000001-1234567890">>}
        /\ Len(inventory_record) = 1 /\ Len(inventory_record_event) = 1
        /\ inventory_record[1].system_id = <<"80000002-1234567890">>

\* The document has text that is no number where a number is expected: in
\* the iteratorRemainingCount attribute, or in a SalesPrice or QuantityOnHand
\* element.
NonNumericText(k) ==
    \/ /\ IsSome(RootAttr(k, "iteratorRemainingCount"))
       /\ ~IsSome(ParseInt(Unwrap(RootAttr(k, "iteratorRemainingCount"))))
    \/ \E i \in 2..Len(Bodies[k]) :
          /\ Bodies[k][i].kind = "Text" /\ Bodies[k][i - 1].kind = "Start"
          /\ \/ /\ Bodies[k][i - 1].name = "SalesPrice"
                /\ ~IsSome(ParsePriceCents(Bodies[k][i].text))
             \/ /\ Bodies[k][i - 1].name = "QuantityOnHand"
                /\ ~IsSome(ParseInt(Bodies[k][i].text))

\* C26: a response call whose document is well-formed but has non-numeric
\* text in a numeric position answers a parser error, and the step that gives
\* the answer leaves the event it found and its run in Error.
C26_NonNumericIsParseError ==
    [][\A t \in Tasks :
          (/\ tasks[t].op = "response" /\ tasks[t].pc # "done"
           /\ tasks'[t].pc = "done" /\ tasks'[t].result \in {"Ok", "XmlParse"}
           /\ ~IsSome(tasks[t].input.qbd_error)
           /\ IsSome(tasks[t].input.qbd_response_xml)
           /\ WellFormed(Unwrap(tasks[t].input.qbd_response_xml))
           /\ NonNumericText(Unwrap(tasks[t].input.qbd_response_xml))) =>
              /\ tasks'[t].result = "XmlParse"
              /\ IsSome(tasks[t].event) => EventAfter(t).status = "Error"
              /\ IsSome(tasks[t].run) => RunAfter(t).status = "Error"]_vars

\* C27: a request call for which a store call failed (the lookup or insert of
\* the sync-state, the event lookup, the insert of the run or of the event, the
\* patch of the event found) answers the store error and no has_work result.
C27_RequestStoreErrorAnswered ==
    \A t \in Tasks :
        (tasks[t].op = "request" /\ tasks[t].pc = "done" /\ tasks[t].failed # {}) =>
            tasks[t].result = "Db" /\ ~tasks[t].has

\* A store call of the response call t fails in this step.
ResponseFails(t) == tasks[t].op = "response" /\ UpsertFails(t)

\* The request call t looks for the event that is ready in this step.
RequestLooksUp(t) ==
    tasks[t].op = "request" /\ tasks[t].pc = "find" /\ tasks'[t].pc = "event"

\* C28: a response call that fails leaves every event as it is; an event
\* leaves InProgress only in the answering step of a response call that found
\* it; a request call that looks the event up while the events of its
\* sync-state are all InProgress finds none; and a request call that found
\* none and succeeds adds a List/Inventory event to the same sync-state, next
\* to the ones that are there.
C28_LostResponseSecondEvent ==
    [][/\ \A t \in Tasks :
            /\ ResponseFails(t) => sync_event' = sync_event
            /\ (/\ RequestLooksUp(t)
                /\ \A i \in RecurringEvents(Unwrap(tasks[t].sync_state).id) :
                      sync_event[i].status = "InProgress") =>
                    ~IsSome(tasks'[t].event)
            /\ (/\ RequestAnswers(t) /\ ~IsSome(tasks[t].event)
                /\ tasks'[t].result = "Ok") =>
                    /\ AppendsOne(sync_event, sync_event')
                    /\ IsRecurringEventOf(sync_event'[Len(sync_event')],
                                          Unwrap(tasks[t].sync_state).id)
                    /\ sync_event'[Len(sync_event')].status = "InProgress"
       /\ \A i \in DOMAIN sync_event :
            (sync_event[i].status = "InProgress"
             /\ sync_event'[i].status # "InProgress") =>
                \E t \in Tasks :
                    /\ tasks[t].op = "response" /\ tasks'[t].pc = "done"
                    /\ tasks[t].pc # "done" /\ ~UpsertFails(t)
                    /\ IsSome(tasks[t].event) /\ Unwrap(tasks[t].event).id = i]_vars

\* The patch that would have taken event 1 out of InProgress failed, and a
\* request call that found no event has created a second one for the
\* sync-state: both are InProgress.
C28_Witness ==
    \E t \in Tasks, o \in Tasks :
        /\ tasks[t].op = "response" /\ tasks[t].pc = "done"
        /\ tasks[t].failed = {<<"event patch">>}
        /\ tasks[t].event # None /\ Unwrap(tasks[t].event).id = 1
        /\ tasks[o].op = "request" /\ tasks[o].pc = "done"
        /\ tasks[o].result = "Ok" /\ ~IsSome(tasks[o].event)
        /\ Len(sync_event) = 2
        /\ \A i \in 1..2 :
              /\ sync_event[i].status = "InProgress"
              /\ IsRecurringEventOf(sync_event[i], Unwrap(tasks[t].sync_state).id)

\* The iteratorID a query built from the cursor carries.
IteratorIdOf(cursor) == IF IsSome(cursor) THEN Unwrap(cursor).iterator_id ELSE None

\* C29: when a response call that processed its document takes the event out
\* of InProgress, the stored cursor is the one its document carries; and when
\* a request call picks up an event that is Pending, the query document it
\* builds follows the cursor stored at that moment.
C29_CursorBeforePending ==
    [][\A t \in Tasks :
          /\ (/\ tasks[t].op = "response" /\ tasks[t].pc = "mark"
              /\ tasks'[t].pc = "done" /\ IsSome(tasks[t].event)
              /\ EventAfter(t).status = "Pending") =>
                  CursorOf(Unwrap(tasks[t].sync_state).id)
                      = CarriedCursor(Unwrap(tasks[t].input.qbd_response_xml))
          /\ (/\ RequestLooksUp(t) /\ IsSome(tasks'[t].event)
              /\ sync_event[Unwrap(tasks'[t].event).id].status = "Pending") =>
                  /\ IsSome(tasks'[t].xml)
                  /\ Unwrap(tasks'[t].xml).iteratorID
                        = IteratorIdOf(CursorOf(Unwrap(tasks[t].sync_state).id))]_vars

\* Of two request calls that found the same event as it was before either
\* patched it, o has answered and t answers in this step, no store call of
\* either having failed.
SecondOfTwo(t, o) ==
    /\ t # o /\ RequestAnswers(t) /\ IsSome(tasks[t].event)
    /\ tasks'[t].failed = {}
    /\ tasks[o].op = "request" /\ tasks[o].pc = "done" /\ tasks[o].result = "Ok"
    /\ tasks[o].failed = {} /\ IsSome(tasks[o].event)
    /\ tasks[o].event = tasks[t].event

\* C30: when two request calls of a connection found the same Pending or
\* Error event, the one that answers second finds the event InProgress by the
\* first, creates a run of its own, adds no event and patches the same event,
\* which stays InProgress and is now linked to the second run only; the cursor
\* is not written, and while it is the one both calls read, both answer the
\* same query document, the one that follows it.
C30_TwoRequestsOneEvent ==
    [][\A t \in Tasks, o \in Tasks :
          SecondOfTwo(t, o) =>
              LET e == Unwrap(tasks[t].event).id
                  s == Unwrap(tasks[t].sync_state).id
              IN  /\ AppendsOne(connection_run, connection_run')
                  /\ IsSome(tasks[o].run)
                  /\ Unwrap(tasks[o].run) \in DOMAIN connection_run
                  /\ connection_run'[Len(connection_run')].connection_id = tasks[t].conn
                  /\ DOMAIN sync_event' = DOMAIN sync_event
                  /\ sync_event[e].status = "InProgress"
                  /\ sync_event[e].connection_run_id = tasks[o].run
                  /\ sync_event'[e].status = "InProgress"
                  /\ sync_event'[e].connection_run_id = Some(Len(connection_run'))
                  /\ erp_connection_sync_state' = erp_connection_sync_state
                  /\ tasks'[t].result = "Ok" /\ tasks'[t].has
                  /\ (/\ Unwrap(tasks[t].sync_state).sync_cursor = CursorOf(s)
                      /\ Unwrap(tasks[o].sync_state).sync_cursor = CursorOf(s)) =>
                        /\ tasks'[t].xml = tasks[o].xml
                        /\ Unwrap(tasks'[t].xml).iteratorID
                              = IteratorIdOf(CursorOf(s))]_vars

\* Two request calls have both re-driven event 1, which a page with more to
\* come had left Pending: three runs, one event, linked to the last run, and
\* both calls hold the same Continue query.
C30_Witness ==
    /\ \A t \in Tasks :
          /\ tasks[t].op = "request" /\ tasks[t].pc = "done"
          /\ tasks[t].result = "Ok" /\ tasks[t].failed = {}
          /\ IsSome(tasks[t].event) /\ Unwrap(tasks[t].event).id = 1
          /\ IsSome(tasks[t].xml) /\ Unwrap(tasks[t].xml).iterator = "Continue"
    /\ tasks["t1"].run # tasks["t2"].run
    /\ tasks["t1"].xml = tasks["t2"].xml
    /\ Len(sync_event) = 1 /\ Len(connection_run) = 3
    /\ sync_event[1].status = "InProgress" /\ sync_event[1].attempts = 2
    /\ sync_event[1].connection_run_id = Some(3)

\* A step of the response call t, which holds no event before and after it.
StepWithoutEvent(t) ==
    /\ tasks[t].op = "response" /\ tasks'[t] # tasks[t]
    /\ ~IsSome(tasks[t].event)
    /\ tasks'[t].pc = "idle" \/ ~IsSome(tasks'[t].event)

\* C31: a response call that found no InProgress event creates and changes no
\* event and no run in any of its steps; when its document carries statusCode
\* "0" it still upserts the items, rewrites the cursor from the document and
\* answers has_more by the document's remaining count.
C31_NoEventNoJournal ==
    [][\A t \in Tasks :
          StepWithoutEvent(t) =>
              /\ sync_event' = sync_event
              /\ connection_run' = connection_run
              /\ (WritesCursor(t) /\ CarriesStatusZero(tasks[t])) =>
                    /\ \A i \in DOMAIN Parsed(tasks[t]).items :
                          Upserted(tasks[t].conn, Parsed(tasks[t]).items[i])
                    /\ CursorOf(Unwrap(tasks[t].sync_state).id)'
                          = CarriedCursor(Unwrap(tasks[t].input.qbd_response_xml))
              /\ (tasks[t].pc = "mark" /\ tasks'[t].pc = "done") =>
                    /\ tasks'[t].result = "Ok"
                    /\ tasks'[t].has
                          = (CarriedCount(Unwrap(tasks[t].input.qbd_response_xml)) > 0)]_vars

\* A response call that found no event has processed a page with more to
\* come: the item is stored, the cursor is written, has_more is TRUE, and
\* there is still no event and no run.
C31_Witness ==
    \E t \in Tasks :
        /\ tasks[t].op = "response" /\ tasks[t].pc = "done"
        /\ ~IsSome(tasks[t].event) /\ tasks[t].input.qbd_response_xml = Some(1)
        /\ tasks[t].result = "Ok" /\ tasks[t].has
        /\ Len(inventory_record) = 1 /\ Len(inventory_record_event) = 1
        /\ CursorOf(Unwrap(tasks[t].sync_state).id)
              = Some([iterator_id |-> Some(<<"{abc}">>), remaining_count |-> 1])
        /\ sync_event = <<>> /\ connection_run = <<>>

\* The connection the call t, which takes this step, is authenticated for
\* (0 when the credential check rejected it).
ConnOfStep(t) == IF tasks[t].pc = "idle" THEN tasks'[t].conn ELSE tasks[t].conn

\* The connection an event belongs to, through its sync-state row.
ConnOfEvent(row) ==
    erp_connection_sync_state'[Unwrap(row.connection_sync_state_id)].connection_id

\* C32: a step of a request or response call authenticated for a connection
\* adds and changes no sync-state row, event, run, inventory record or
\* inventory record event of another connection, also when both connections
\* report the same ListID.
C32_ConnectionsIndependent ==
    [][\A t \in Tasks :
          tasks'[t] # tasks[t] =>
              LET a == ConnOfStep(t)
              IN  /\ \A i \in DOMAIN erp_connection_sync_state' :
                        erp_connection_sync_state'[i].connection_id # a =>
                            /\ i \in DOMAIN erp_connection_sync_state
                            /\ erp_connection_sync_state'[i] = erp_connection_sync_state[i]
                  /\ \A i \in DOMAIN sync_event' :
                        ConnOfEvent(sync_event'[i]) # a =>
                            i \in DOMAIN sync_event /\ sync_event'[i] = sync_event[i]
                  /\ \A i \in DOMAIN connection_run' :
                        connection_run'[i].connection_id # a =>
                            i \in DOMAIN connection_run
                            /\ connection_run'[i] = connection_run[i]
                  /\ \A i \in DOMAIN inventory_record' :
                        inventory_record'[i].originating_connection_id # a =>
                            i \in DOMAIN inventory_record
                            /\ inventory_record'[i] = inventory_record[i]
                  /\ \A i \in DOMAIN inventory_record_event' :
                        inventory_record_event'[i].connection_id # a =>
                            i \in DOMAIN inventory_record_event
                            /\ inventory_record_event'[i] = inventory_record_event[i]]_vars

\* Two connections have each stored a record for the same ListID, from
\* different documents, and each record still has its own connection's body.
C32_Witness ==
    /\ \E i \in DOMAIN inventory_record, j \in DOMAIN inventory_record :
          /\ inventory_record[i].system_id = inventory_record[j].system_id
          /\ inventory_record[i].originating_connection_id = 1
          /\ inventory_record[j].originating_connection_id = 2
          /\ inventory_record[i].original_record_body
                # inventory_record[j].original_record_body
    /\ Len(erp_connection_sync_state) = 2
    /\ \A t \in Tasks : tasks[t].pc = "done" /\ tasks[t].op = "response"

\* The store call of this step is one of the two partial-patch updates.
PartialPatch ==
    /\ replay' # replay
    /\ replay'.stage \in {"update_by_uuid", "update_by_connection_id"}

\* C33: update_by_uuid and update_by_connection_id leave sync_cursor as it is
\* when the patch carries no cursor and never make a non-null sync_cursor
\* null; a sync_cursor that was non-null becomes null only by the rewrite of
\* handle_response.
C33_PartialPatchKeepsCursor ==
    [][\A i \in DOMAIN erp_connection_sync_state :
          LET old == erp_connection_sync_state[i].sync_cursor
              new == erp_connection_sync_state'[i].sync_cursor
          IN  /\ PartialPatch =>
                    /\ ~IsSome(replay'.patch.sync_cursor) => new = old
                    /\ old # None => new # None
              /\ (old # None /\ new = None) => replay'.stage = "rewrite"]_vars

\* A partial patch without a cursor has set the lock owner of a row and left
\* its non-null cursor in place.
C33_Witness ==
    /\ replay.stage = "update_by_connection_id"
    /\ ~IsSome(replay.patch.sync_cursor)
    /\ erp_connection_sync_state[replay.id].sync_lock_owner = Some("worker")
    /\ erp_connection_sync_state[replay.id].sync_cursor = Some(CursorAbc)

\* C34: no call passes the credential check on a credentials row whose stored
\* provider_password is null, whatever password it sends.
C34_NullPasswordNeverAuthorizes ==
    \A t \in Tasks :
        (tasks[t].op \in {"request", "response"} /\ tasks[t].conn # 0) =>
            \A i \in Rows(erp_connection_credentials) :
                (/\ UserIdMatches(erp_connection_credentials[i].provider_user_id,
                                  tasks[t].username)
                 /\ erp_connection_credentials[i].connection_id = tasks[t].conn) =>
                    IsSome(erp_connection_credentials[i].provider_password)

\* The input of a response call that is a hard error, a document that is not
\* well-formed, or a document that carries a statusCode other than "0".
CarriesError(task) ==
    \/ IsSome(task.input.qbd_error)
    \/ /\ IsSome(task.input.qbd_response_xml)
       /\ ~WellFormed(Unwrap(task.input.qbd_response_xml))
    \/ CarriesSoftError(task)

C36_ResponseEndsEvent ==
    [][\A t \in Tasks :
          (/\ tasks[t].op = "response" /\ tasks[t].pc # "done"
           /\ tasks'[t].pc = "done" /\ tasks'[t].result \in {"Ok", "XmlParse"}
           /\ IsSome(tasks'[t].event)) =>
              sync_event'[Unwrap(tasks'[t].event).id].status \in {"Pending", "Error"}]_vars

\* The request call t answers work in this step, no store call having failed.
RequestDrives(t) ==
    RequestAnswers(t) /\ tasks'[t].result = "Ok" /\ tasks'[t].failed = {}

\* C37: attempts counts the request calls that drove the event: a request
\* call that creates the event leaves it with attempts 1, a request call that
\* found it and answers work adds one to the stored attempts, and no other
\* step changes the attempts of an event.
C37_AttemptsCountDrives ==
    [][/\ \A t \in Tasks :
            RequestDrives(t) =>
                IF IsSome(tasks[t].event)
                THEN sync_event'[Unwrap(tasks[t].event).id].attempts
                        = sync_event[Unwrap(tasks[t].event).id].attempts + 1
                ELSE sync_event'[Len(sync_event')].attempts = 1
       /\ \A i \in DOMAIN sync_event :
            sync_event'[i].attempts # sync_event[i].attempts =>
                \E t \in Tasks :
                    /\ RequestDrives(t) /\ IsSome(tasks[t].event)
                    /\ Unwrap(tasks[t].event).id = i]_vars

====
